---- MODULE Spec2Model ----
(***************************************************************************)
(* A model of godns: the 512-octet packet buffer (package buffer), the DNS *)
(* message codec built on it (package dns) and the recursive resolver      *)
(* (package server).                                                       *)
(*                                                                         *)
(* A DomainName is the sequence of the octets of its dotted string; a      *)
(* buffer is a record [Buf, pos] whose Buf maps the offsets 0..511 to      *)
(* octets.  Every Go function that returns an error is an operator that    *)
(* returns a record with an err field, "" standing for nil.                *)
(***************************************************************************)
EXTENDS Integers, Sequences, FiniteSets, TLC

\* ------------------------------------------------------------------ bounds
\* Names one buffer session writes with WriteQname.
MaxNames == 2
\* Records one buffer session writes with DNSRecord.Write.
MaxRecords == 2

\* ------------------------------------------------------ program constants
BufSize == 512
MAX_JUMPS == 5
MaxLabelLen == 63
Dot == 46
PointerTag == 192

Octets == 0..255
NoErr == ""

\* --------------------------------------------------------------- octet names
\* "www.google.com", "google.com", "yahoo.com" and friends, as octets.
WwwGoogleCom == <<119,119,119,46,103,111,111,103,108,101,46,99,111,109>>
GoogleCom == <<103,111,111,103,108,101,46,99,111,109>>
YahooCom == <<121,97,104,111,111,46,99,111,109>>
EmptyName == <<>>
\* "a." : a trailing dot
TrailingDotName == <<97,46>>
\* "a..b" : two adjacent dots
DoubleDotName == <<97,46,46,98>>
\* a single label of 63 octets, and one of 64
Label63 == [i \in 1..63 |-> 97]
Label64 == [i \in 1..64 |-> 97]
\* "com." followed by a 64-octet label: the error comes after a partial write
ComLabel64 == <<99,111,109,46>> \o Label64

\* ------------------------------------------------------------ BytePacketBuffer
NewBytePacketBuffer == [Buf |-> [i \in 0..(BufSize - 1) |-> 0], pos |-> 0]

Seek(b, p) == [b EXCEPT !.pos = p]

Steps(b, steps) == [b EXCEPT !.pos = b.pos + steps]

\* Get(pos): the octet at pos, or the end-of-buffer error.
Get(b, p) ==
    IF p >= BufSize
    THEN [err |-> "end of buffer", val |-> 0]
    ELSE [err |-> NoErr, val |-> b.Buf[p]]

\* GetRange(start, len): the octets start..start+len-1, cursor unmoved.
GetRange(b, start, len) ==
    IF start + len >= BufSize
    THEN [err |-> "buffer overflow", val |-> <<>>]
    ELSE [err |-> NoErr, val |-> [i \in 1..len |-> b.Buf[start + i - 1]]]

\* GetRangeAtPos(): the first pos octets.
GetRangeAtPos(b) ==
    IF b.pos >= BufSize
    THEN [err |-> "buffer overflow", val |-> <<>>]
    ELSE [err |-> NoErr, val |-> [i \in 1..b.pos |-> b.Buf[i - 1]]]

Set16(b, p, value) ==
    [b EXCEPT !.Buf = [@ EXCEPT ![p] = (value \div 256) % 256,
                                ![p + 1] = value % 256]]

\* Read(): the octet at the cursor, which advances by one.
Read(b) ==
    IF b.pos >= BufSize
    THEN [b |-> b, err |-> "buffer overflow", val |-> 0]
    ELSE [b |-> [b EXCEPT !.pos = b.pos + 1], err |-> NoErr, val |-> b.Buf[b.pos]]

\* The multi-octet reads collect their octets in st = [b, err, val]: one
\* Read per octet, none after a Read failed.
ReadStart(b) == [b |-> b, err |-> NoErr, val |-> <<>>]

ReadAppend(st, r) ==
    [b |-> r.b, err |-> r.err,
     val |-> IF r.err # NoErr THEN st.val ELSE Append(st.val, r.val)]

ReadNext(st) == IF st.err # NoErr THEN st ELSE ReadAppend(st, Read(st.b))

Join16(st) ==
    [b |-> st.b, err |-> st.err,
     val |-> IF st.err # NoErr THEN 0 ELSE st.val[1] * 256 + st.val[2]]

Read16(b) == Join16(ReadNext(ReadNext(ReadStart(b))))

\* A uint32 is kept as its two 16-bit halves, [hi, lo]: hi is value >> 16 and
\* lo is value & 0xFFFF (the model checker's integers are 32-bit signed).
U32(n) == [hi |-> n \div 65536, lo |-> n % 65536]

Join32(st) ==
    [b |-> st.b, err |-> st.err,
     val |-> IF st.err # NoErr THEN U32(0)
             ELSE [hi |-> st.val[1] * 256 + st.val[2],
                   lo |-> st.val[3] * 256 + st.val[4]]]

Read32(b) == Join32(ReadNext(ReadNext(ReadNext(ReadNext(ReadStart(b))))))

\* writePacketByte with the last octet of the buffer refused.
writePacketByteEarly(b, value) ==
    IF b.pos >= BufSize - 1
    THEN [b |-> b, err |-> "end of buffer"]
    ELSE [b |-> [Buf |-> [b.Buf EXCEPT ![b.pos] = value], pos |-> b.pos + 1],
          err |-> NoErr]

\* writePacketByte(value): the octet goes to the cursor, which advances by one.
writePacketByte(b, value) ==
    IF b.pos >= BufSize
    THEN [b |-> b, err |-> "end of buffer"]
    ELSE [b |-> [Buf |-> [b.Buf EXCEPT ![b.pos] = value], pos |-> b.pos + 1],
          err |-> NoErr]

Write8(b, value) == writePacketByte(b, value % 256)

\* The writes that follow one another pass on st = [b, err]: a write is
\* made only when none before it failed, and its error is wrapped as msg.
WriteStart(b) == [b |-> b, err |-> NoErr]

Wrapped(r, msg) == IF r.err # NoErr THEN [b |-> r.b, err |-> msg] ELSE r

PutByte(st, value, msg) ==
    IF st.err # NoErr THEN st ELSE Wrapped(writePacketByte(st.b, value), msg)

Put8(st, value, msg) ==
    IF st.err # NoErr THEN st ELSE Wrapped(Write8(st.b, value), msg)

\* Write16 with the low octet written first.
Write16LowFirst(b, value) ==
    PutByte(PutByte(WriteStart(b), value % 256,
                    "writing first 8 bits of 16 bit"),
            (value \div 256) % 256, "writing second 8 bits of 16 bit")

Write16(b, value) ==
    PutByte(PutByte(WriteStart(b), (value \div 256) % 256,
                    "writing first 8 bits of 16 bit"),
            value % 256, "writing second 8 bits of 16 bit")

Write32(b, value) ==
    PutByte(PutByte(PutByte(PutByte(WriteStart(b),
                (value.hi \div 256) % 256, "writing first 8 bits of 32 bit"),
                value.hi % 256, "writing second 8 bits of 32 bit"),
                (value.lo \div 256) % 256, "writing third 8 bits of 32 bit"),
                value.lo % 256, "writing fourth 8 bits of 32 bit")

Put16(st, value, msg) ==
    IF st.err # NoErr THEN st ELSE Wrapped(Write16(st.b, value), msg)

Put32(st, value, msg) ==
    IF st.err # NoErr THEN st ELSE Wrapped(Write32(st.b, value), msg)

\* ------------------------------------------------------------------ WriteQname
\* strings.Split(s, "."): the pieces between the dots; one empty piece for "".
RECURSIVE Split(_)
Split(s) ==
    IF \A i \in 1..Len(s) : s[i] # Dot
    THEN <<s>>
    ELSE LET i == CHOOSE k \in 1..Len(s) :
                      s[k] = Dot /\ \A j \in 1..(k - 1) : s[j] # Dot
         IN <<SubSeq(s, 1, i - 1)>> \o Split(SubSeq(s, i + 1, Len(s)))

\* The inner loop of WriteQname, for _, bt := range []byte(label): one Write8
\* per octet, the octets lo..hi here.  The range is halved rather than walked
\* so that the evaluation stays shallow; an error ends the loop.
RECURSIVE WriteLabelOctets(_, _, _, _)
WriteLabelOctets(st, label, lo, hi) ==
    IF lo > hi \/ st.err # NoErr THEN st ELSE
    IF lo = hi
    THEN Put8(st, label[lo], "writing domain name")
    ELSE WriteLabelOctets(WriteLabelOctets(st, label, lo, (lo + hi) \div 2),
                          label, (lo + hi) \div 2 + 1, hi)

\* The outer loop of WriteQname: every piece of the split, empty or not, from
\* the i-th on; an error ends the loop.
RECURSIVE WriteLabels(_, _, _)
WriteLabels(st, labels, i) ==
    IF i > Len(labels) \/ st.err # NoErr THEN st ELSE
    IF Len(labels[i]) > MaxLabelLen
    THEN [st EXCEPT !.err = "single label exceeds 63 character of length"] ELSE
    WriteLabels(
        WriteLabelOctets(Put8(st, Len(labels[i]), "writing single label"),
                         labels[i], 1, Len(labels[i])),
        labels, i + 1)

\* WriteQname without the Write8(0) after the loop.
WriteQnameNoTerminator(b, qname) == WriteLabels(WriteStart(b), Split(qname), 1)

WriteQname(b, qname) ==
    Put8(WriteLabels(WriteStart(b), Split(qname), 1), 0, "writing last byte")

PutQname(st, qname, msg) ==
    IF st.err # NoErr THEN st ELSE Wrapped(WriteQname(st.b, qname), msg)

\* ------------------------------------------------------------------- ReadQname
\* The locals of ReadQname, and the cursor, when the loop is entered: str is
\* the DomainName the caller passed.
RQStart(b, str) ==
    [cursor |-> b.pos, p |-> b.pos, jumped |-> FALSE, jumps |-> 0,
     delim |-> <<>>, str |-> str, pc |-> "loop", err |-> NoErr]

\* RQJump without the Seek past the first pointer.
RQJumpNoSeek(s, s1, len, b2) ==
    IF b2.err # NoErr
    THEN [s EXCEPT !.pc = "return", !.err = "reading offset instructions"]
    ELSE [s EXCEPT !.p = (len.val - PointerTag) * 256 + b2.val,
                   !.jumped = TRUE,
                   !.jumps = s.jumps + 1]

\* The octet at p is a pointer and Seek(p + 2) was made if it was due (s1):
\* b2 is what Get(p + 1) returned.
RQJump(s, s1, len, b2) ==
    IF b2.err # NoErr
    THEN [s1 EXCEPT !.pc = "return", !.err = "reading offset instructions"]
    ELSE [s1 EXCEPT !.p = (len.val - PointerTag) * 256 + b2.val,
                    !.jumped = TRUE,
                    !.jumps = s.jumps + 1]

\* The octet at p is a label length: range is what GetRange returned.
RQLabel(s, len, range) ==
    IF range.err # NoErr
    THEN [s EXCEPT !.p = s.p + 1,
                   !.str = s.str \o s.delim,
                   !.pc = "return",
                   !.err = "reading the label"]
    ELSE [s EXCEPT !.p = s.p + 1 + len.val,
                   !.str = s.str \o s.delim \o range.val,
                   !.delim = <<Dot>>]

\* len is what Get(p) returned: an error, a pointer, the terminator or a
\* label length.
RQOctet(Buf, s, len) ==
    IF len.err # NoErr
    THEN [s EXCEPT !.pc = "return", !.err = "reading query name"] ELSE
    IF len.val >= PointerTag
    THEN RQJump(s, IF ~s.jumped THEN [s EXCEPT !.cursor = s.p + 2] ELSE s, len,
                Get([Buf |-> Buf, pos |-> s.cursor], s.p + 1))
    ELSE IF len.val = 0
         THEN \* break, then the Seek after the loop
              [s EXCEPT !.p = s.p + 1,
                        !.cursor = IF ~s.jumped THEN s.p + 1 ELSE s.cursor,
                        !.pc = "return"]
         ELSE RQLabel(s, len,
                      GetRange([Buf |-> Buf, pos |-> s.cursor], s.p + 1, len.val))

\* An iteration of the loop of ReadQname after its check of the jumps.
RQIterBody(Buf, s) == RQOctet(Buf, s, Get([Buf |-> Buf, pos |-> s.cursor], s.p))

MaxJumpsErr == "Limit of 5 max jumps exceeded"

\* RQIter with the limit checked as jumps >= MAX_JUMPS.
RQIterEarlyLimit(Buf, s) ==
    IF s.jumps >= MAX_JUMPS
    THEN [s EXCEPT !.pc = "return", !.err = MaxJumpsErr]
    ELSE RQIterBody(Buf, s)

\* One iteration of the loop of ReadQname (pc "loop"), up to break or return.
RQIter(Buf, s) ==
    IF s.jumps > MAX_JUMPS
    THEN [s EXCEPT !.pc = "return", !.err = MaxJumpsErr]
    ELSE RQIterBody(Buf, s)

\* The loop of ReadQname: at most n iterations from s, halved rather than
\* walked so that the evaluation stays shallow.
RECURSIVE RQRun(_, _, _)
RQRun(Buf, s, n) ==
    IF n = 0 \/ s.pc = "return" THEN s ELSE
    IF n = 1 THEN RQIter(Buf, s) ELSE
    RQRun(Buf, RQRun(Buf, s, n \div 2), n - n \div 2)

\* No call iterates more often: between two jumps p only grows, and it
\* grows at most BufSize times before Get fails.
RQMaxIterations == (MAX_JUMPS + 2) * (BufSize + 1)

\* What ReadQname leaves: the cursor, the error and the name.
RQResult(b, s) ==
    [b |-> [b EXCEPT !.pos = s.cursor], err |-> s.err, str |-> s.str,
     jumps |-> s.jumps, pc |-> s.pc]

\* ReadQname(DomainName): the whole call.
ReadQname(b, str) == RQResult(b, RQRun(b.Buf, RQStart(b, str), RQMaxIterations))

\* ---------------------------------------------------------------- bit helpers
Bit(x, k) == (x \div (2 ^ k)) % 2

\* a | b on 8-bit operands
BitOr8(x, y) ==
    LET bit(k) == IF Bit(x, k) = 1 \/ Bit(y, k) = 1 THEN 2 ^ k ELSE 0
    IN bit(0) + bit(1) + bit(2) + bit(3) + bit(4) + bit(5) + bit(6) + bit(7)

BoolToUint8(value) == IF value THEN 1 ELSE 0

\* -------------------------------------------------------------------- net.IP
\* net.IPv4(a, b, c, d): the 16-octet form of an IPv4 address.
IPv4(a, b, c, d) == <<0, 0, 0, 0, 0, 0, 0, 0, 0, 0, 255, 255, a, b, c, d>>

\* ip.To4(): the 4-octet form, or nil (<<>>) when ip is no IPv4 address.
To4(ip) ==
    IF Len(ip) = 4 THEN ip
    ELSE IF /\ Len(ip) = 16
            /\ \A i \in 1..10 : ip[i] = 0
            /\ ip[11] = 255
            /\ ip[12] = 255
         THEN SubSeq(ip, 13, 16)
         ELSE <<>>

\* ip.To16(): the 16-octet form, or nil (<<>>) when ip has another length.
To16(ip) ==
    IF Len(ip) = 4 THEN IPv4(ip[1], ip[2], ip[3], ip[4])
    ELSE IF Len(ip) = 16 THEN ip ELSE <<>>

\* ------------------------------------------------------------------ QueryType
UnknownQueryType == 0
AQueryType == 1
NSQueryType == 2
CNAMEQueryType == 5
SOAQueryType == 6
MXQueryType == 15
AAAAQueryType == 28

KnownQueryTypes ==
    {AQueryType, NSQueryType, CNAMEQueryType, SOAQueryType, MXQueryType,
     AAAAQueryType}

\* ------------------------------------------------------------------ ResultCode
NoError == 0
FormErr == 1
ServFail == 2
NxDomain == 3
NoTimp == 4
Refused == 5

GetResCode(code) ==
    CASE code = 0 -> NoError
      [] code = 1 -> FormErr
      [] code = 2 -> ServFail
      [] code = 3 -> NxDomain
      [] code = 4 -> NoTimp
      [] code = 5 -> Refused
      [] OTHER -> NoError

\* ------------------------------------------------------------------ DNSHeader
NewDNSHeader ==
    [ID |-> 0,
     RecursionDesired |-> FALSE, TruncatedMessage |-> FALSE,
     AuthoritativeAnswer |-> FALSE, Opcode |-> 0, Response |-> FALSE,
     ResCode |-> NoError, CheckingDisabled |-> FALSE, AuthedData |-> FALSE,
     Z |-> FALSE, RecursionAvailable |-> FALSE,
     Questions |-> 0, Answers |-> 0, AuthoritativeEntries |-> 0,
     ResourceEntries |-> 0]

\* DNSHeader.Read passes on st = [b, err, h]; r is what Read16 returned.
HeaderID(st, r) ==
    IF r.err # NoErr
    THEN [b |-> r.b, err |-> "reading the header id", h |-> st.h]
    ELSE [b |-> r.b, err |-> NoErr, h |-> [st.h EXCEPT !.ID = r.val]]

HeaderFlags(st, r) ==
    IF r.err # NoErr
    THEN [b |-> r.b, err |-> "reading the header flags", h |-> st.h]
    ELSE [b |-> r.b, err |-> NoErr,
          h |-> [st.h EXCEPT
                   !.RecursionDesired = Bit(r.val \div 256, 0) = 1,
                   !.TruncatedMessage = Bit(r.val \div 256, 1) = 1,
                   !.AuthoritativeAnswer = Bit(r.val \div 256, 2) = 1,
                   !.Opcode = ((r.val \div 256) \div 8) % 16,
                   !.Response = Bit(r.val \div 256, 7) = 1,
                   !.ResCode = GetResCode((r.val % 256) % 16),
                   !.CheckingDisabled = Bit(r.val % 256, 4) = 1,
                   !.AuthedData = Bit(r.val % 256, 5) = 1,
                   !.Z = Bit(r.val % 256, 6) = 1,
                   !.RecursionAvailable = Bit(r.val % 256, 7) = 1]]

\* d.Questions, err = buffer.Read16(): the count is assigned, then the error
\* is looked at.
HeaderCount(st, r, field, msg) ==
    [b |-> r.b, err |-> IF r.err # NoErr THEN msg ELSE NoErr,
     h |-> [st.h EXCEPT ![field] = r.val]]

HeaderReadID(st) == IF st.err # NoErr THEN st ELSE HeaderID(st, Read16(st.b))

HeaderReadFlags(st) == IF st.err # NoErr THEN st ELSE HeaderFlags(st, Read16(st.b))

HeaderReadCount(st, field, msg) ==
    IF st.err # NoErr THEN st ELSE HeaderCount(st, Read16(st.b), field, msg)

\* DNSHeader.Read
HeaderRead(b, d) ==
    HeaderReadCount(
      HeaderReadCount(
        HeaderReadCount(
          HeaderReadCount(
            HeaderReadFlags(HeaderReadID([b |-> b, err |-> NoErr, h |-> d])),
            "Questions", "reading header question"),
          "Answers", "reading header answers"),
        "AuthoritativeEntries", "reading header authoritative entries"),
      "ResourceEntries", "reading header resource entries")

\* The two flag octets DNSHeader.Write composes.
HeaderFlagsA(h) ==
    BitOr8(BitOr8(BitOr8(BitOr8(BoolToUint8(h.RecursionDesired),
                                BoolToUint8(h.TruncatedMessage) * 2),
                         BoolToUint8(h.AuthoritativeAnswer) * 4),
                  (h.Opcode * 8) % 256),
           BoolToUint8(h.Response) * 128)

\* HeaderFlagsB with CD at bit 5 and AD at bit 4.
HeaderFlagsBSwapped(h) ==
    BitOr8(BitOr8(BitOr8(BitOr8(h.ResCode % 256,
                                BoolToUint8(h.CheckingDisabled) * 32),
                         BoolToUint8(h.AuthedData) * 16),
                  BoolToUint8(h.Z) * 64),
           BoolToUint8(h.RecursionAvailable) * 128)

HeaderFlagsB(h) ==
    BitOr8(BitOr8(BitOr8(BitOr8(h.ResCode % 256,
                                BoolToUint8(h.CheckingDisabled) * 16),
                         BoolToUint8(h.AuthedData) * 32),
                  BoolToUint8(h.Z) * 64),
           BoolToUint8(h.RecursionAvailable) * 128)

\* buffer.Write16(value) with its error dropped: the test that follows looks
\* at the err of the Write16 before, which is nil.
Put16Unchecked(st, value) ==
    IF st.err # NoErr THEN st ELSE [b |-> Write16(st.b, value).b, err |-> NoErr]

\* DNSHeader.Write: the errors of the last three Write16 are dropped.
HeaderWrite(b, h) ==
    Put16Unchecked(
      Put16Unchecked(
        Put16Unchecked(
          Put16(
            Put8(
              Put8(
                Put16(WriteStart(b), h.ID, "writing dns header id"),
                HeaderFlagsA(h), "writing dns header flags first byte"),
              HeaderFlagsB(h), "writing dns header flags second byte"),
            h.Questions, "writing dns header questions"),
          h.Answers),
        h.AuthoritativeEntries),
      h.ResourceEntries)

\* ---------------------------------------------------------------- DNSQuestion
NewDNSQuestion(qname, qtype) == [Name |-> qname, Class |-> 1, QType |-> qtype]

\* DNSQuestion.Read passes on st = [b, err, q].  n is what ReadQname
\* returned: it appended to the name the question already held.
QuestionName(q, n) ==
    [b |-> n.b,
     err |-> IF n.err # NoErr THEN "reading dns question name" ELSE NoErr,
     q |-> [q EXCEPT !.Name = n.str]]

QuestionField(st, r, field, msg) ==
    IF r.err # NoErr
    THEN [b |-> r.b, err |-> msg, q |-> st.q]
    ELSE [b |-> r.b, err |-> NoErr, q |-> [st.q EXCEPT ![field] = r.val]]

QuestionRead16(st, field, msg) ==
    IF st.err # NoErr THEN st ELSE QuestionField(st, Read16(st.b), field, msg)

\* DNSQuestion.Read
QuestionRead(b, q) ==
    QuestionRead16(
      QuestionRead16(QuestionName(q, ReadQname(b, q.Name)),
                     "QType", "reading dns question query type"),
      "Class", "reading dns question query class")

\* DNSQuestion.Write
QuestionWrite(b, q) ==
    Put16(Put16(PutQname(WriteStart(b), q.Name, "writing qname"),
                q.QType % 65536, "writing query type"),
          q.Class, "writing query class")

\* ------------------------------------------------------------------ DNSRecord
\* DNSRecord{}: the zero value; a nil name or address is <<>>.
ZeroRecord ==
    [QType |-> 0, Domain |-> <<>>, Host |-> <<>>, MailHost |-> <<>>,
     Serial |-> U32(0), Refresh |-> U32(0), Retry |-> U32(0),
     Expire |-> U32(0), Minimum |-> U32(0),
     Class |-> 0, Priority |-> 0, Addr |-> <<>>, TTL |-> U32(0), DataLen |-> 0]

convertTo32to8(value) ==
    <<(value.hi \div 256) % 256, value.hi % 256,
      (value.lo \div 256) % 256, value.lo % 256>>

\* DNSRecord.Read passes on st = [b, err, r].  n is what ReadQname returned
\* for a fresh name, v what Read16 or Read32 returned: the field is assigned
\* when there was no error.
RecName(st, n, field, msg) ==
    IF n.err # NoErr
    THEN [b |-> n.b, err |-> msg, r |-> st.r]
    ELSE [b |-> n.b, err |-> NoErr, r |-> [st.r EXCEPT ![field] = n.str]]

RecNum(st, v, field, msg) ==
    IF v.err # NoErr
    THEN [b |-> v.b, err |-> msg, r |-> st.r]
    ELSE [b |-> v.b, err |-> NoErr, r |-> [st.r EXCEPT ![field] = v.val]]

RecReadName(st, field, msg) ==
    IF st.err # NoErr THEN st ELSE RecName(st, ReadQname(st.b, <<>>), field, msg)

RecRead16(st, field, msg) ==
    IF st.err # NoErr THEN st ELSE RecNum(st, Read16(st.b), field, msg)

RecRead32(st, field, msg) ==
    IF st.err # NoErr THEN st ELSE RecNum(st, Read32(st.b), field, msg)

\* The A branch of DNSRecord.Read: raw is what Read32 returned.
RecIPv4(st, raw) ==
    IF raw.err # NoErr
    THEN [b |-> raw.b, err |-> "reading dns record ip address", r |-> st.r]
    ELSE [b |-> raw.b, err |-> NoErr,
          r |-> [st.r EXCEPT !.Addr = IPv4((raw.val.hi \div 256) % 256,
                                           raw.val.hi % 256,
                                           (raw.val.lo \div 256) % 256,
                                           raw.val.lo % 256)]]

\* The AAAA branch of DNSRecord.Read: four Read32, each appended as 4 octets
\* to st.val.
AAAAAppend(st, raw) ==
    IF raw.err # NoErr
    THEN [b |-> raw.b, err |-> "reading dns record ip address", val |-> st.val]
    ELSE [b |-> raw.b, err |-> NoErr, val |-> st.val \o convertTo32to8(raw.val)]

AAAANext(st) == IF st.err # NoErr THEN st ELSE AAAAAppend(st, Read32(st.b))

ReadAAAA(b) == AAAANext(AAAANext(AAAANext(AAAANext(ReadStart(b)))))

RecIPv6(st, a) ==
    IF a.err # NoErr
    THEN [b |-> a.b, err |-> a.err, r |-> st.r]
    ELSE [b |-> a.b, err |-> NoErr, r |-> [st.r EXCEPT !.Addr = a.val]]

\* The MX branch of DNSRecord.Read: host and priority are assigned once
\* both were read.
RecMXDone(st, priority, mx) ==
    IF mx.err # NoErr
    THEN [b |-> mx.b, err |-> "reading mail server name", r |-> st.r]
    ELSE [b |-> mx.b, err |-> NoErr,
          r |-> [st.r EXCEPT !.Host = mx.str, !.Priority = priority.val]]

RecMXName(st, priority) ==
    IF priority.err # NoErr
    THEN [b |-> priority.b, err |-> "reading mail server priority", r |-> st.r]
    ELSE RecMXDone(st, priority, ReadQname(priority.b, <<>>))

\* The SOA branch of DNSRecord.Read: two names, five Read32.
RecReadSOA(st) ==
    RecRead32(
      RecRead32(
        RecRead32(
          RecRead32(
            RecRead32(
              RecReadName(RecReadName(st, "Host", "reading dns record host"),
                          "MailHost", "reading dns record host"),
              "Serial", "reading dns record serial"),
            "Refresh", "reading dns record refresh"),
          "Retry", "reading dns record retry"),
        "Expire", "reading dns record expire"),
      "Minimum", "reading dns record minimum")

\* The switch of DNSRecord.Read, entered after the common prefix was read.
RecordReadPayload(st, dataLen) ==
    CASE st.r.QType = AQueryType -> RecIPv4(st, Read32(st.b))
      [] st.r.QType = NSQueryType ->
           RecReadName(st, "Host", "reading dns record nameserver")
      [] st.r.QType = CNAMEQueryType ->
           RecReadName(st, "Host", "reading dns record host")
      [] st.r.QType = SOAQueryType -> RecReadSOA(st)
      [] st.r.QType = AAAAQueryType -> RecIPv6(st, ReadAAAA(st.b))
      [] st.r.QType = MXQueryType -> RecMXName(st, Read16(st.b))
      [] OTHER ->
           \* Steps(dataLen): no bound is checked
           [b |-> Steps(st.b, dataLen), err |-> NoErr,
            r |-> [st.r EXCEPT !.DataLen = dataLen]]

\* dataLen is what the Read16 of RDLENGTH returned.
RecordReadSwitch(st, dataLen) ==
    IF dataLen.err # NoErr
    THEN [b |-> dataLen.b, err |-> "reading dns record data_len", r |-> st.r]
    ELSE RecordReadPayload([st EXCEPT !.b = dataLen.b], dataLen.val)

RecordReadDataLen(st) ==
    IF st.err # NoErr THEN st ELSE RecordReadSwitch(st, Read16(st.b))

\* DNSRecord.Read on the record r.
RecordRead(b, r) ==
    RecordReadDataLen(
      RecRead32(
        RecRead16(
          RecRead16(
            RecReadName([b |-> b, err |-> NoErr, r |-> r],
                        "Domain", "reading dns record domain name"),
            "QType", "reading dns record query type"),
          "Class", "reading dns record class"),
        "TTL", "reading dns record ttl"))

\* The loop of the AAAA branch of DNSRecord.Write, for _, bt := range
\* r.Addr.To16(): one Write8 per octet, the octets lo..hi here.
RECURSIVE WriteAddrOctets(_, _, _, _)
WriteAddrOctets(st, octets, lo, hi) ==
    IF lo > hi \/ st.err # NoErr THEN st ELSE
    IF lo = hi
    THEN Put8(st, octets[lo], "setting ipv6 value")
    ELSE WriteAddrOctets(WriteAddrOctets(st, octets, lo, (lo + hi) \div 2),
                         octets, (lo + hi) \div 2 + 1, hi)

\* The A branch of DNSRecord.Write after RDLENGTH: addrRaw is r.Addr.To4(),
\* and indexing a nil addrRaw panics.
WriteAddr4(st, addrRaw) ==
    IF st.err # NoErr THEN st ELSE
    IF Len(addrRaw) = 0 THEN [st EXCEPT !.err = "panic: index out of range"] ELSE
    Put8(Put8(Put8(Put8(st,
        addrRaw[1], "reading first byte of dns record ip"),
        addrRaw[2], "reading second byte of dns record ip"),
        addrRaw[3], "reading third byte of dns record ip"),
        addrRaw[4], "reading fourth byte of dns record ip")

\* The SOA branch of DNSRecord.Write after the two names: five Write32.
WriteSOANumbers(st, r) ==
    Put32(Put32(Put32(Put32(Put32(st,
        r.Serial, "setting SOA serial number"),
        r.Refresh, "setting SOA refresh number"),
        r.Retry, "setting SOA retry number"),
        r.Expire, "setting SOA expire number"),
        r.Minimum, "setting SOA minimum number")

\* PatchDataLen with the two octets of the field counted in.
PatchDataLenFromField(b, at) == Set16(b, at, (b.pos - at) % 65536)

\* The back-patch that ends the NS, CNAME, SOA and MX branches.
PatchDataLen(b, at) == Set16(b, at, (b.pos - (at + 2)) % 65536)

Patched(st, at) ==
    IF st.err # NoErr THEN st ELSE [b |-> PatchDataLen(st.b, at), err |-> NoErr]

\* The switch of DNSRecord.Write, entered after the common prefix was written.
RecordWritePayload(b, r) ==
    CASE r.QType = AQueryType ->
           WriteAddr4(Put16(WriteStart(b), 4, "setting datalen A type"),
                      To4(r.Addr))
      [] r.QType = NSQueryType ->
           Patched(PutQname(Put16(WriteStart(b), 0, "setting datalen NS type"),
                            r.Host, "setting nameserver host"),
                   b.pos)
      [] r.QType = CNAMEQueryType ->
           Patched(PutQname(Put16(WriteStart(b), 0, "setting datalen CNAME type"),
                            r.Host, "setting CNAME host"),
                   b.pos)
      [] r.QType = SOAQueryType ->
           Patched(
             WriteSOANumbers(
               PutQname(PutQname(Put16(WriteStart(b), 0, "setting datalen SOA type"),
                                 r.Host, "setting SOA host"),
                        r.MailHost, "setting SOA mailing host"),
               r),
             b.pos)
      [] r.QType = MXQueryType ->
           Patched(PutQname(Put16(Put16(WriteStart(b), 0, "setting datalen MX type"),
                                  r.Priority, "setting priority"),
                            r.Host, "setting nameserver host"),
                   b.pos)
      [] r.QType = AAAAQueryType ->
           WriteAddrOctets(Put16(WriteStart(b), 16, "setting datalen for AAAA type"),
                           To16(r.Addr), 1, Len(To16(r.Addr)))
      [] OTHER ->
           \* "Skipping record": nothing more is written
           [b |-> b, err |-> NoErr]

\* The common prefix of DNSRecord.Write: name, type, class and TTL, written
\* before the switch on the type.
RecordWritePrefix(b, r) ==
    Put32(Put16(Put16(PutQname(WriteStart(b),
        r.Domain, "writing dns record domain name"),
        r.QType % 65536, "writing dns record query type"),
        r.Class, "writing dns record class"),
        r.TTL, "writing dns record TTL")

RecordWriteSwitch(st, r) ==
    IF st.err # NoErr THEN st ELSE RecordWritePayload(st.b, r)

\* What DNSRecord.Write returns: the octets written, 0 with an error.
RecordWritten(b, st) ==
    IF st.err # NoErr
    THEN [b |-> st.b, err |-> st.err, n |-> 0]
    ELSE [b |-> st.b, err |-> NoErr, n |-> st.b.pos - b.pos]

\* DNSRecord.Write: n is the number of octets it reports as written.
RecordWrite(b, r) ==
    RecordWritten(b, RecordWriteSwitch(RecordWritePrefix(b, r), r))

\* ------------------------------------------------------------------ DNSPacket
NewDNSPacket ==
    [Header |-> NewDNSHeader, Questions |-> <<>>, Answers |-> <<>>,
     Authorities |-> <<>>, Resources |-> <<>>]

\* The section loops of DNSPacket.Read pass on st = [b, err, val], val the
\* entries read so far.  q is what DNSQuestion.Read returned for a fresh
\* question.
QuestionAppended(st, q) ==
    IF q.err # NoErr
    THEN [b |-> q.b, err |-> "reading dns question", val |-> st.val]
    ELSE [b |-> q.b, err |-> NoErr, val |-> Append(st.val, q.q)]

ReadQuestionStep(st) ==
    QuestionAppended(st, QuestionRead(st.b, NewDNSQuestion(<<>>, UnknownQueryType)))

\* for i := 0; i < n; i++ { question.Read }: n iterations from st, halved
\* rather than walked; an error ends the loop.
RECURSIVE ReadQuestions(_, _)
ReadQuestions(st, n) ==
    IF n = 0 \/ st.err # NoErr THEN st ELSE
    IF n = 1 THEN ReadQuestionStep(st) ELSE
    ReadQuestions(ReadQuestions(st, n \div 2), n - n \div 2)

\* RecordAppended with the record put before the records read so far.
RecordPrepended(st, rec, msg) ==
    IF rec.err # NoErr
    THEN [b |-> rec.b, err |-> msg, val |-> st.val]
    ELSE [b |-> rec.b, err |-> NoErr, val |-> <<rec.r>> \o st.val]

\* rec is what DNSRecord.Read returned for a zero record.
RecordAppended(st, rec, msg) ==
    IF rec.err # NoErr
    THEN [b |-> rec.b, err |-> msg, val |-> st.val]
    ELSE [b |-> rec.b, err |-> NoErr, val |-> Append(st.val, rec.r)]

ReadRecordStep(st, msg) == RecordAppended(st, RecordRead(st.b, ZeroRecord), msg)

\* for i := 0; i < n; i++ { rec.Read }
RECURSIVE ReadRecords(_, _, _)
ReadRecords(st, n, msg) ==
    IF n = 0 \/ st.err # NoErr THEN st ELSE
    IF n = 1 THEN ReadRecordStep(st, msg) ELSE
    ReadRecords(ReadRecords(st, n \div 2, msg), n - n \div 2, msg)

\* The state a section loop starts in.
SectionStart(b) == [b |-> b, err |-> NoErr, val |-> <<>>]

\* DNSPacket.Read passes on st = [b, err, p].  h is what DNSHeader.Read
\* returned: it wrote to the header of the packet.
PacketHeader(p, h) ==
    [b |-> h.b, err |-> IF h.err # NoErr THEN "reading header" ELSE NoErr,
     p |-> [p EXCEPT !.Header = h.h]]

\* sec is what a section loop returned: the section is assigned after a
\* loop without error.
PacketSection(st, sec, field) ==
    IF sec.err # NoErr
    THEN [b |-> sec.b, err |-> sec.err, p |-> st.p]
    ELSE [b |-> sec.b, err |-> NoErr, p |-> [st.p EXCEPT ![field] = sec.val]]

PacketReadQuestions(st) ==
    IF st.err # NoErr THEN st ELSE
    PacketSection(st, ReadQuestions(SectionStart(st.b), st.p.Header.Questions),
                  "Questions")

PacketReadRecords(st, field, count, msg) ==
    IF st.err # NoErr THEN st ELSE
    PacketSection(st, ReadRecords(SectionStart(st.b), st.p.Header[count], msg),
                  field)

\* DNSPacket.Read on the packet p.
PacketRead(b, p) ==
    PacketReadRecords(
      PacketReadRecords(
        PacketReadRecords(
          PacketReadQuestions(PacketHeader(p, HeaderRead(b, p.Header))),
          "Answers", "Answers", "reading dns record answers"),
        "Authorities", "AuthoritativeEntries",
        "reading dns record authoritative entries"),
      "Resources", "ResourceEntries", "reading dns record resources")

\* for _, q := range p.Questions { q.Write }, from the i-th on
RECURSIVE WriteQuestions(_, _, _)
WriteQuestions(st, qs, i) ==
    IF i > Len(qs) \/ st.err # NoErr THEN st ELSE
    WriteQuestions(
        Wrapped(QuestionWrite(st.b, qs[i]), "updating packet with questions"),
        qs, i + 1)

\* _, err = a.Write(buffer): the count is dropped, the error wrapped
WrappedRecord(r, msg) ==
    [b |-> r.b, err |-> IF r.err # NoErr THEN msg ELSE NoErr]

\* for _, a := range records { a.Write }, from the i-th on
RECURSIVE WriteRecords(_, _, _, _)
WriteRecords(st, rs, i, msg) ==
    IF i > Len(rs) \/ st.err # NoErr THEN st ELSE
    WriteRecords(WrappedRecord(RecordWrite(st.b, rs[i]), msg), rs, i + 1, msg)

\* Write without the four assignments to the counts of the header.
BindCountsSkipped(p) == p

\* The header counts DNSPacket.Write binds before it writes the header.
BindCounts(p) ==
    [p EXCEPT !.Header = [@ EXCEPT !.Questions = Len(p.Questions) % 65536,
                                   !.Answers = Len(p.Answers) % 65536,
                                   !.AuthoritativeEntries = Len(p.Authorities) % 65536,
                                   !.ResourceEntries = Len(p.Resources) % 65536]]

PacketWritten(p, st) == [b |-> st.b, err |-> st.err, p |-> p]

\* DNSPacket.Write once the counts are bound.
PacketWriteBound(b, p) ==
    PacketWritten(p,
      WriteRecords(
        WriteRecords(
          WriteRecords(
            WriteQuestions(
              Wrapped(HeaderWrite(b, p.Header), "writing header information"),
              p.Questions, 1),
            p.Answers, 1, "updating packet with answers"),
          p.Authorities, 1, "updating packet with authoritative answers"),
        p.Resources, 1, "updating packet with resource entries"))

\* DNSPacket.Write: p is the packet as the call leaves it.
PacketWrite(b, pkt) == PacketWriteBound(b, BindCounts(pkt))

\* What DNSPacketFromBuffer returns: ok is FALSE when it is no packet.
PacketOrNil(r) ==
    IF r.err # NoErr
    THEN [b |-> r.b, err |-> r.err, ok |-> FALSE, p |-> NewDNSPacket]
    ELSE [b |-> r.b, err |-> NoErr, ok |-> TRUE, p |-> r.p]

DNSPacketFromBuffer(b) == PacketOrNil(PacketRead(b, NewDNSPacket))

\* ======================================================================
\* The resolver (package server) and the packet queries it relies on
\* ======================================================================

\* strings.HasSuffix(s, suffix)
HasSuffix(s, suffix) ==
    /\ Len(s) >= Len(suffix)
    /\ SubSeq(s, Len(s) - Len(suffix) + 1, Len(s)) = suffix

\* DNSPacket.getNS: (domain, host) of the NS records of the authority
\* section whose owner is a suffix of qname, in section order.
getNS(p, qname) ==
    LET keep(r) == r.QType = NSQueryType /\ HasSuffix(qname, r.Domain)
        sel == SelectSeq(p.Authorities, keep)
    IN [i \in 1..Len(sel) |-> <<sel[i].Domain, sel[i].Host>>]

\* DNSPacket.GetResolverNS: the address of the first A record of the
\* additional section that is named as the host of the first such NS
\* record; nil (<<>>) when there is none.
GetResolverNS(p, qname) ==
    LET tuples == getNS(p, qname)
        hits == {<<t, i>> \in (1..Len(tuples)) \X (1..Len(p.Resources)) :
                    /\ p.Resources[i].QType = AQueryType
                    /\ tuples[t][2] = p.Resources[i].Domain}
    IN IF hits = {} THEN <<>>
       ELSE LET first == CHOOSE h \in hits : \A g \in hits :
                            h[1] < g[1] \/ (h[1] = g[1] /\ h[2] <= g[2])
            IN p.Resources[first[2]].Addr

\* DNSPacket.GetUnresolvedNS: the first host of getNS that is not empty.
GetUnresolvedNS(p, qname) ==
    LET tuples == getNS(p, qname)
        named == {t \in 1..Len(tuples) : tuples[t][2] # <<>>}
    IN IF named = {} THEN <<>>
       ELSE tuples[CHOOSE t \in named : \A u \in named : t <= u][2]

\* The A records of the answer section, in order.
ARecords(p) ==
    LET isA(r) == r.QType = AQueryType IN SelectSeq(p.Answers, isA)

\* DNSPacket.GetRandomA: the address of the A record that rand.Intn drew
\* (k), nil (<<>>) when the answers hold no A record.
GetRandomA(p, k) ==
    IF Len(ARecords(p)) = 0 THEN <<>> ELSE ARecords(p)[k + 1].Addr

\* net.ParseIP("198.41.0.4")
RootNS == IPv4(198, 41, 0, 4)

\* uint16(10000 + rand.Intn(100000-5000)) for the draw r of rand.Intn
LookupID(r) == (10000 + r) % 65536

\* lookup(qname, qtype, server): the query is encoded and sent (req is the
\* datagram handed to conn.Write), the datagram the network hands back (net)
\* is decoded.
lookup(qname, qtype, server, r, net) ==
    LET packet == [NewDNSPacket EXCEPT
                      !.Header = [NewDNSHeader EXCEPT !.ID = LookupID(r),
                                                      !.RecursionDesired = TRUE],
                      !.Questions = <<NewDNSQuestion(qname, qtype)>>]
        w == PacketWrite(NewBytePacketBuffer, packet)
        none == [pkt |-> NewDNSPacket, sent |-> FALSE, id |-> LookupID(r),
                 req |-> <<>>]
    IN
    IF w.err # NoErr
    THEN none @@ [err |-> "preparing dns request packet"]
    ELSE
    LET req == GetRangeAtPos(w.b) IN
    IF req.err # NoErr THEN none @@ [err |-> "retrieving buffer"] ELSE
    IF net.err # NoErr
    THEN [none EXCEPT !.sent = TRUE, !.req = req.val]
            @@ [err |-> "reading dns server response"]
    ELSE
    LET res == DNSPacketFromBuffer([Buf |-> net.Buf, pos |-> 0]) IN
    IF res.err # NoErr
    THEN [none EXCEPT !.sent = TRUE, !.req = req.val]
            @@ [err |-> "parsing dns server response"]
    ELSE [pkt |-> res.p, sent |-> TRUE, id |-> LookupID(r), req |-> req.val,
          err |-> NoErr]

\* Classify with the glue address looked for before the tests on the
\* answers and the result code.
ClassifyGlueFirst(response, qName) ==
    IF GetResolverNS(response, qName) # <<>> THEN "glue"
    ELSE IF Len(response.Answers) # 0 /\ response.Header.ResCode = NoError
    THEN "answer"
    ELSE IF response.Header.ResCode = NxDomain THEN "nxdomain"
    ELSE IF GetUnresolvedNS(response, qName) = <<>> THEN "nons"
    ELSE "descend"

\* What recursiveLookup does with a response it decoded, in the order of
\* its tests: return it ("answer", "nxdomain"), query the glue address
\* ("glue"), return it for want of a nameserver name ("nons"), or resolve
\* the nameserver name ("descend").
Classify(response, qName) ==
    IF Len(response.Answers) # 0 /\ response.Header.ResCode = NoError
    THEN "answer"
    ELSE IF response.Header.ResCode = NxDomain THEN "nxdomain"
    ELSE IF GetResolverNS(response, qName) # <<>> THEN "glue"
    ELSE IF GetUnresolvedNS(response, qName) = <<>> THEN "nons"
    ELSE "descend"

\* ReplyFor with the result code of the result copied whether or not
\* recursiveLookup returned an error.
ReplyForErrIgnored(request, result, err) ==
    [NewDNSPacket EXCEPT
        !.Header = [NewDNSHeader EXCEPT !.ID = request.Header.ID,
                                        !.RecursionDesired = TRUE,
                                        !.RecursionAvailable = TRUE,
                                        !.Response = TRUE,
                                        !.ResCode =
                                            IF Len(request.Questions) = 1
                                            THEN result.Header.ResCode
                                            ELSE FormErr]]

\* ReplyFor with the questions of the request copied into every reply that
\* is not the reply to a failed resolution.
ReplyForEchoQuestions(request, result, err) ==
    [NewDNSPacket EXCEPT
        !.Header = [NewDNSHeader EXCEPT !.ID = request.Header.ID,
                                        !.RecursionDesired = TRUE,
                                        !.RecursionAvailable = TRUE,
                                        !.Response = TRUE,
                                        !.ResCode =
                                            IF Len(request.Questions) # 1
                                            THEN FormErr
                                            ELSE IF err # NoErr THEN ServFail
                                            ELSE result.Header.ResCode],
        !.Questions = IF err # NoErr THEN <<>> ELSE request.Questions,
        !.Answers = IF err # NoErr THEN <<>> ELSE result.Answers,
        !.Authorities = IF err # NoErr THEN <<>> ELSE result.Authorities,
        !.Resources = IF err # NoErr THEN <<>> ELSE result.Resources]

\* The reply handleQuery builds for a request with one question from what
\* recursiveLookup returned.
ReplyFor(request, result, err) ==
    LET h == [NewDNSHeader EXCEPT !.ID = request.Header.ID,
                                  !.RecursionDesired = TRUE,
                                  !.RecursionAvailable = TRUE,
                                  !.Response = TRUE]
    IN
    IF Len(request.Questions) = 1
    THEN IF err = NoErr
         THEN [NewDNSPacket EXCEPT
                  !.Header = [h EXCEPT !.Questions = 1,
                                       !.ResCode = result.Header.ResCode],
                  !.Questions = <<request.Questions[1]>>,
                  !.Answers = result.Answers,
                  !.Authorities = result.Authorities,
                  !.Resources = result.Resources]
         ELSE [NewDNSPacket EXCEPT !.Header = [h EXCEPT !.ResCode = ServFail]]
    ELSE [NewDNSPacket EXCEPT !.Header = [h EXCEPT !.ResCode = FormErr]]

\* The end of handleQuery: the reply is encoded and what the buffer holds up
\* to the cursor is sent, whether or not the encoding failed.
SendReply(packet) ==
    LET w == PacketWrite(NewBytePacketBuffer, packet)
        data == GetRangeAtPos(w.b)
    IN [pkt |-> w.p, werr |-> w.err, data |-> data.val, derr |-> data.err,
        sent |-> TRUE]

\* ======================================================================
\* The inputs the operations are driven with
\* ======================================================================
Com == <<99,111,109>>
NsGoogleCom == <<110,115,46,103,111,111,103,108,101,46,99,111,109>>

\* The names WriteQname is called with.
Names ==
    {WwwGoogleCom, GoogleCom, YahooCom, EmptyName, TrailingDotName,
     DoubleDotName, Label63, Label64, ComLabel64}

\* The cursors a fresh buffer is moved to before something is written.
SeekTargets == {440, 496, 505, 508, 509, 510, 511, 512}

RecA ==
    [ZeroRecord EXCEPT !.QType = AQueryType, !.Domain = WwwGoogleCom,
                       !.Class = 1, !.TTL = U32(300),
                       !.Addr = <<172, 217, 164, 100>>]
RecNS ==
    [ZeroRecord EXCEPT !.QType = NSQueryType, !.Domain = Com, !.Class = 1,
                       !.TTL = U32(172800), !.Host = NsGoogleCom]
RecCNAME ==
    [ZeroRecord EXCEPT !.QType = CNAMEQueryType, !.Domain = YahooCom,
                       !.Class = 1, !.TTL = U32(60), !.Host = WwwGoogleCom]
RecSOA ==
    [ZeroRecord EXCEPT !.QType = SOAQueryType, !.Domain = Com, !.Class = 1,
                       !.TTL = U32(900), !.Host = NsGoogleCom, !.MailHost = GoogleCom,
                       !.Serial = [hi |-> 65535, lo |-> 65535], !.Refresh = U32(1800),
                       !.Retry = U32(900),
                       !.Expire = U32(604800), !.Minimum = U32(86400)]
RecMX ==
    [ZeroRecord EXCEPT !.QType = MXQueryType, !.Domain = GoogleCom, !.Class = 1,
                       !.TTL = U32(600), !.Priority = 10, !.Host = YahooCom]
RecAAAA ==
    [ZeroRecord EXCEPT !.QType = AAAAQueryType, !.Domain = GoogleCom,
                       !.Class = 1, !.TTL = U32(300),
                       !.Addr = <<32, 1, 72, 96, 72, 96, 0, 0, 0, 0, 0, 0, 0, 0,
                                  136, 136>>]
\* a TXT record (type 16), which the codec does not know
RecUnknown ==
    [ZeroRecord EXCEPT !.QType = 16, !.Domain = GoogleCom, !.Class = 1,
                       !.TTL = U32(300), !.DataLen = 5]
\* the zero record: type 0, no name
RecZero == ZeroRecord
\* a record whose name holds a 64-octet label: the write fails at once
RecBadName ==
    [ZeroRecord EXCEPT !.QType = 16, !.Domain = Label64, !.Class = 1]

Records ==
    {RecA, RecNS, RecCNAME, RecSOA, RecMX, RecAAAA, RecUnknown, RecZero,
     RecBadName}

QueryHeader ==
    [NewDNSHeader EXCEPT !.ID = 44023, !.RecursionDesired = TRUE]
ReplyHeader ==
    [NewDNSHeader EXCEPT !.ID = 44023, !.RecursionDesired = TRUE,
                         !.RecursionAvailable = TRUE, !.Response = TRUE]

QuestionA == NewDNSQuestion(WwwGoogleCom, AQueryType)

PktQuery == [NewDNSPacket EXCEPT !.Header = QueryHeader, !.Questions = <<QuestionA>>]
PktAnswer ==
    [NewDNSPacket EXCEPT !.Header = ReplyHeader, !.Questions = <<QuestionA>>,
                         !.Answers = <<RecA>>, !.Authorities = <<RecNS>>,
                         !.Resources = <<RecAAAA>>]
PktMixed ==
    [NewDNSPacket EXCEPT !.Header = [ReplyHeader EXCEPT !.ResCode = NxDomain,
                                                        !.AuthoritativeAnswer = TRUE],
                         !.Questions = <<NewDNSQuestion(YahooCom, MXQueryType)>>,
                         !.Answers = <<RecCNAME, RecMX>>,
                         !.Authorities = <<RecSOA>>]
\* header counts that do not match the sections
PktStaleCounts ==
    [NewDNSPacket EXCEPT !.Header = [ReplyHeader EXCEPT !.Questions = 7,
                                                        !.Answers = 3,
                                                        !.ResourceEntries = 9],
                         !.Questions = <<QuestionA>>,
                         !.Answers = <<RecA, RecA>>]
\* a record of unknown type before a known one
PktUnknownFirst ==
    [NewDNSPacket EXCEPT !.Header = ReplyHeader, !.Questions = <<QuestionA>>,
                         !.Answers = <<RecUnknown, RecA>>]
\* a record of unknown type, last in the packet
PktUnknownLast ==
    [NewDNSPacket EXCEPT !.Header = ReplyHeader, !.Questions = <<QuestionA>>,
                         !.Answers = <<RecA, RecUnknown>>]
\* a question for the root, the empty name
PktRootQuestion ==
    [NewDNSPacket EXCEPT !.Header = QueryHeader,
                         !.Questions = <<NewDNSQuestion(EmptyName, NSQueryType)>>]
\* more than 512 octets: eight records whose names hold a 63-octet label
RecLong == [RecA EXCEPT !.Domain = Label63]
PktTooLong ==
    [NewDNSPacket EXCEPT !.Header = ReplyHeader, !.Questions = <<QuestionA>>,
                         !.Answers = <<RecLong, RecLong, RecLong, RecLong>>,
                         !.Resources = <<RecLong, RecLong, RecLong, RecLong>>]

Packets ==
    {PktQuery, PktAnswer, PktMixed, PktStaleCounts, PktUnknownFirst,
     PktUnknownLast, PktRootQuestion, PktTooLong}

\* The header whose eight flags are the bits of mask (RD the least, then TC,
\* AA, QR, CD, AD, Z, RA) and whose counts are c, c+1, c+2, c+3.
HeaderOf(id, mask, opcode, rcode, c) ==
    [ID |-> id,
     RecursionDesired |-> Bit(mask, 0) = 1, TruncatedMessage |-> Bit(mask, 1) = 1,
     AuthoritativeAnswer |-> Bit(mask, 2) = 1, Opcode |-> opcode,
     Response |-> Bit(mask, 3) = 1,
     ResCode |-> rcode, CheckingDisabled |-> Bit(mask, 4) = 1,
     AuthedData |-> Bit(mask, 5) = 1,
     Z |-> Bit(mask, 6) = 1, RecursionAvailable |-> Bit(mask, 7) = 1,
     Questions |-> c, Answers |-> (c + 1) % 65536,
     AuthoritativeEntries |-> (c + 2) % 65536,
     ResourceEntries |-> (c + 3) % 65536]

\* The headers DNSHeader.Write is called with: every combination of flags
\* with the extreme opcodes and result codes, and every opcode and result
\* code with no flag and with all flags, for three ids and counts.
Headers ==
    {HeaderOf(44023, m, o, r, 1) : m \in 0..255, o \in {0, 15}, r \in {NoError, Refused}}
    \cup {HeaderOf(n, m, o, r, n) :
             n \in {0, 258, 65535}, m \in {0, 255}, o \in 0..15,
             r \in NoError..Refused}

\* A datagram: 512 octets, all zero but for `octets` placed from offset `at`.
Place(octets, at) ==
    [i \in 0..(BufSize - 1) |->
        IF i >= at /\ i < at + Len(octets) THEN octets[i - at + 1] ELSE 0]

\* a pointer to itself
DgramSelfPointer == Place(<<192, 0>>, 0)
\* pointers 0 -> 2 -> 4 -> 6 -> 8 -> 10 -> 12, then the name "a"
DgramPointerChain ==
    Place(<<192, 2, 192, 4, 192, 6, 192, 8, 192, 10, 192, 12, 1, 97, 0>>, 0)
\* two pointers that point at each other, behind a label
DgramPointerCycle == Place(<<1, 97, 192, 4, 192, 2>>, 0)
\* the root name, then type 16, class 1, TTL 0, RDLENGTH 600
DgramUnknownLong == Place(<<0, 0, 16, 0, 1, 0, 0, 0, 0, 2, 88>>, 0)
\* the root name, then type 16, class 1, TTL 0, RDLENGTH 3 and three octets
DgramUnknownShort == Place(<<0, 0, 16, 0, 1, 0, 0, 0, 0, 0, 3, 7, 7, 7>>, 0)
\* a pointer in the last octet of the buffer
DgramPointerAtEnd == Place(<<192>>, 511)
\* a pointer in the last two octets, to the name "a" at offset 2
DgramPointerLastTwo ==
    [i \in 0..(BufSize - 1) |->
        CASE i = 2 -> 1 [] i = 3 -> 97 [] i = 510 -> 192 [] i = 511 -> 2
          [] OTHER -> 0]
\* a label whose octets end at the last octet of the buffer, no terminator
DgramLabelToEnd == Place(<<1, 97>>, 510)
\* a name whose terminator is the last octet of the buffer
DgramNameToEnd == Place(<<1, 97, 0>>, 509)
\* a length octet with top bits 10 (value 130)
DgramLongLabel == Place(<<130, 97, 97>>, 0)
\* the record "a A IN 300" with an RDLENGTH of 6 and six octets of payload
DgramARdLen6 ==
    Place(<<1, 97, 0, 0, 1, 0, 1, 0, 0, 1, 44, 0, 6, 1, 2, 3, 4, 5, 6>>, 0)

HandDatagrams ==
    {DgramSelfPointer, DgramPointerChain, DgramPointerCycle, DgramUnknownLong,
     DgramUnknownShort, DgramPointerAtEnd, DgramPointerLastTwo,
     DgramLabelToEnd, DgramNameToEnd, DgramLongLabel, DgramARdLen6}

\* Every datagram whose first DgramPrefixLen octets are drawn from
\* DgramAlphabet (a terminator, two label lengths, a pointer tag).
DgramPrefixLen == 3
DgramAlphabet == {0, 1, 2, 192}
GeneratedDatagrams ==
    {Place(t, 0) : t \in [1..DgramPrefixLen -> DgramAlphabet]}

\* Headers on the wire: two first flag octets and every second flag octet
\* with no flag, one with all flags.
HeaderDatagrams ==
    {Place(<<171, 247, a, b, 0, 1, 0, 2, 1, 3, 255, 255>>, 0) :
        a \in {0, 133}, b \in (0..15) \cup {250}}

Datagrams == HandDatagrams \cup GeneratedDatagrams \cup HeaderDatagrams

\* The widths in octets of the integers of the buffer, and the values they
\* are written with: a uint8 and a uint16 are the low half of [hi, lo].
Widths == {1, 2, 4}
Halves == {0, 1, 255, 256, 4660, 32768, 65535}
IntValues(width) ==
    CASE width = 1 -> {U32(v) : v \in {0, 1, 128, 255}}
      [] width = 2 -> {U32(v) : v \in Halves}
      [] width = 4 -> {[hi |-> h, lo |-> l] : h \in Halves, l \in Halves}

\* The ranges asked of GetRange: where they start and how long they are.
RangeStarts == {0, 1, 500, 511, 512}
RangeLens == {0, 1, 11, 12, 512}

\* The cursors a datagram is decoded from.
StartCursors == {0, 1, 2, 509, 510, 511}

\* ======================================================================
\* The codec as a state machine: one buffer, one operation at a time
\* ======================================================================
VARIABLES
    Buf,       \* BytePacketBuffer.Buf
    pos,       \* BytePacketBuffer.pos
    pre,       \* the buffer [Buf, pos] as the last operation found it
    phase,     \* what the buffer is being used for
    op,        \* the last operation: its kind, arguments and results
    written,   \* the names WriteQname was called with on this buffer
    readBack,  \* the names ReadQname returned from this buffer
    rq         \* the locals of the ReadQname call in progress

codecVars == <<Buf, pos, pre, phase, op, written, readBack, rq>>

VARIABLES
    serving,   \* where Serve is: "waiting", "resolving", "resolved", "crashed"
    request,   \* handleQuery's request, as decoded
    stack,     \* the calls of recursiveLookup in progress, the innermost last
    ret,       \* what the recursiveLookup call that returned last returned
    upstream,  \* the last exchange with a nameserver (req is the datagram
               \* sent) and what was made of it
    reply      \* what handleQuery sent to the client

resolverVars == <<serving, request, stack, ret, upstream, reply>>

NoRet ==
    [set |-> FALSE, pkt |-> NewDNSPacket, err |-> NoErr, qName |-> <<>>,
     qType |-> UnknownQueryType, after |-> "none"]

NoUpstream ==
    [tick |-> FALSE, qName |-> <<>>, qType |-> UnknownQueryType, ns |-> <<>>,
     id |-> 0, sent |-> FALSE, req |-> <<>>, err |-> NoErr,
     response |-> NewDNSPacket, outcome |-> "none", depth |-> 0]

NoReply ==
    [pkt |-> NewDNSPacket, werr |-> NoErr, data |-> <<>>, derr |-> NoErr,
     sent |-> FALSE]

ResolverInit ==
    /\ serving = "waiting"
    /\ request = NewDNSPacket
    /\ stack = <<>>
    /\ ret = NoRet
    /\ upstream = NoUpstream
    /\ reply = NoReply

NoOp ==
    [kind |-> "none", err |-> NoErr, name |-> <<>>, rec |-> ZeroRecord,
     pkt |-> NewDNSPacket, n |-> 0, ok |-> TRUE]

RQIdle == [RQStart(NewBytePacketBuffer, <<>>) EXCEPT !.pc = "idle"]

Here == [Buf |-> Buf, pos |-> pos]

CodecInit ==
    /\ Buf = NewBytePacketBuffer.Buf
    /\ pos = NewBytePacketBuffer.pos
    /\ pre = NewBytePacketBuffer
    /\ phase = "fresh"
    /\ op = NoOp
    /\ written = <<>>
    /\ readBack = <<>>
    /\ rq = RQIdle

\* buffer.NewBytePacketBuffer(): the next buffer.
NewBuffer ==
    /\ UNCHANGED resolverVars
    /\ phase # "fresh"
    /\ rq.pc # "loop"
    /\ Buf' = NewBytePacketBuffer.Buf
    /\ pos' = NewBytePacketBuffer.pos
    /\ pre' = NewBytePacketBuffer
    /\ phase' = "fresh"
    /\ op' = NoOp
    /\ written' = <<>>
    /\ readBack' = <<>>
    /\ rq' = RQIdle

\* buf.Seek(p) on a fresh buffer.
SeekOp ==
    /\ UNCHANGED resolverVars
    /\ phase = "fresh"
    /\ \E p \in SeekTargets :
          /\ pos' = Seek(Here, p).pos
          /\ op' = [NoOp EXCEPT !.kind = "Seek", !.n = p]
    /\ pre' = Here
    /\ phase' = "sought"
    /\ UNCHANGED <<Buf, written, readBack, rq>>

\* buf.WriteQname(name)
WriteQnameOp ==
    /\ UNCHANGED resolverVars
    /\ phase \in {"fresh", "names", "sought"}
    /\ Len(written) < MaxNames
    /\ \E name \in Names :
          LET r == WriteQname(Here, name) IN
          /\ Buf' = r.b.Buf
          /\ pos' = r.b.pos
          /\ op' = [NoOp EXCEPT !.kind = "WriteQname", !.name = name, !.err = r.err]
          /\ written' = Append(written, [name |-> name, err |-> r.err])
    /\ pre' = Here
    /\ phase' = IF phase = "sought" THEN "end" ELSE "names"
    /\ UNCHANGED <<readBack, rq>>

\* buf.Seek(0) after the names were written.
SeekZeroOp ==
    /\ UNCHANGED resolverVars
    /\ phase \in {"names", "packet", "header"}
    /\ pos' = Seek(Here, 0).pos
    /\ op' = [op EXCEPT !.kind = "Seek", !.n = 0]
    /\ pre' = Here
    /\ phase' = CASE phase = "names" -> "readnames"
                  [] phase = "packet" -> "readpacket"
                  [] phase = "header" -> "readheader"
    /\ UNCHANGED <<Buf, written, readBack, rq>>

\* buf.ReadQname(NewDomainName("")), the whole call.
ReadQnameOp ==
    /\ UNCHANGED resolverVars
    /\ phase = "readnames"
    /\ Len(readBack) < Len(written)
    /\ LET r == ReadQname(Here, <<>>) IN
          /\ Buf' = r.b.Buf
          /\ pos' = r.b.pos
          /\ op' = [NoOp EXCEPT !.kind = "ReadQname", !.name = r.str, !.err = r.err,
                                !.n = r.jumps, !.ok = (r.pc = "return")]
          /\ readBack' = Append(readBack, [name |-> r.str, err |-> r.err])
    /\ pre' = Here
    /\ UNCHANGED <<phase, written, rq>>

\* record.Write(buf): op.n is the number of octets it reports as written.
RecordWriteOp ==
    /\ UNCHANGED resolverVars
    /\ phase \in {"fresh", "records", "sought"}
    /\ Len(written) < MaxRecords
    /\ \E r \in Records :
          LET w == RecordWrite(Here, r) IN
          /\ Buf' = w.b.Buf
          /\ pos' = w.b.pos
          /\ op' = [NoOp EXCEPT !.kind = "RecordWrite", !.rec = r, !.err = w.err,
                                !.n = w.n]
          /\ written' = Append(written, [name |-> r.Domain, err |-> w.err])
    /\ pre' = Here
    /\ phase' = IF phase = "sought" THEN "end" ELSE "records"
    /\ UNCHANGED <<readBack, rq>>

\* packet.Write(buf) on a fresh buffer: op.pkt is the packet as Write leaves
\* it.
PacketWriteOp ==
    /\ UNCHANGED resolverVars
    /\ phase = "fresh"
    /\ \E p \in Packets :
          LET w == PacketWrite(Here, p) IN
          /\ Buf' = w.b.Buf
          /\ pos' = w.b.pos
          /\ op' = [NoOp EXCEPT !.kind = "PacketWrite", !.pkt = w.p, !.err = w.err]
          /\ written' = <<[name |-> <<>>, err |-> w.err, pkt |-> p]>>
    /\ pre' = Here
    /\ phase' = "packet"
    /\ UNCHANGED <<readBack, rq>>

\* header.Write(buf) on a fresh buffer or on one whose cursor was moved.
HeaderWriteOp ==
    /\ UNCHANGED resolverVars
    /\ phase \in {"fresh", "sought"}
    /\ \E h \in Headers :
          \E w \in {HeaderWrite(Here, h)} :
             /\ Buf' = w.b.Buf
             /\ pos' = w.b.pos
             /\ op' = [NoOp EXCEPT !.kind = "HeaderWrite", !.err = w.err,
                                   !.pkt = [NewDNSPacket EXCEPT !.Header = h]]
             /\ written' = <<[name |-> <<>>, err |-> w.err,
                              pkt |-> [NewDNSPacket EXCEPT !.Header = h]]>>
    /\ pre' = Here
    /\ phase' = IF phase = "sought" THEN "end" ELSE "header"
    /\ UNCHANGED <<readBack, rq>>

\* header.Read(buf) on a new header: op.pkt.Header is the header as Read
\* leaves it.
HeaderReadOp ==
    /\ UNCHANGED resolverVars
    /\ phase \in {"readheader", "datagram"}
    /\ \E r \in {HeaderRead(Here, NewDNSHeader)} :
          /\ Buf' = r.b.Buf
          /\ pos' = r.b.pos
          /\ op' = [NoOp EXCEPT !.kind = "HeaderRead", !.err = r.err,
                                !.pkt = [NewDNSPacket EXCEPT !.Header = r.h]]
    /\ pre' = Here
    /\ phase' = IF phase = "readheader" THEN "headerread" ELSE "decoded"
    /\ UNCHANGED <<written, readBack, rq>>

\* buf.Write8(v), buf.Write16(v) or buf.Write32(v), by the width.
IntWrite(b, width, value) ==
    CASE width = 1 -> Write8(b, value.lo)
      [] width = 2 -> Write16(b, value.lo)
      [] width = 4 -> Write32(b, value)

\* buf.Read(), buf.Read16() or buf.Read32(), by the width; the value as
\* [hi, lo].
IntRead(b, width) ==
    CASE width = 1 -> [Read(b) EXCEPT !.val = U32(@)]
      [] width = 2 -> [Read16(b) EXCEPT !.val = U32(@)]
      [] width = 4 -> Read32(b)

\* One integer is written at the cursor of a fresh buffer or of one whose
\* cursor was moved.
IntWriteOp ==
    /\ UNCHANGED resolverVars
    /\ phase \in {"fresh", "sought"}
    /\ \E width \in Widths : \E value \in IntValues(width) :
          \E w \in {IntWrite(Here, width, value)} :
             /\ Buf' = w.b.Buf
             /\ pos' = w.b.pos
             /\ op' = [NoOp EXCEPT !.kind = "IntWrite", !.err = w.err,
                                   !.n = width]
             /\ written' = <<[name |-> <<>>, err |-> w.err, width |-> width,
                              val |-> value, at |-> pos]>>
    /\ pre' = Here
    /\ phase' = "int"
    /\ UNCHANGED <<readBack, rq>>

\* buf.Seek(p) back to where the integer was written.
SeekBackOp ==
    /\ UNCHANGED resolverVars
    /\ phase = "int"
    /\ pos' = Seek(Here, written[1].at).pos
    /\ op' = [NoOp EXCEPT !.kind = "Seek", !.n = written[1].at]
    /\ pre' = Here
    /\ phase' = "readint"
    /\ UNCHANGED <<Buf, written, readBack, rq>>

\* One integer is read at the cursor: of the width that was written, or of
\* any width from a datagram or from a buffer whose cursor was moved.
IntReadOp ==
    /\ UNCHANGED resolverVars
    /\ phase \in {"readint", "datagram", "sought"}
    /\ \E width \in IF phase = "readint" THEN {written[1].width} ELSE Widths :
          \E r \in {IntRead(Here, width)} :
             /\ Buf' = r.b.Buf
             /\ pos' = r.b.pos
             /\ op' = [NoOp EXCEPT !.kind = "IntRead", !.err = r.err,
                                   !.n = width]
             /\ readBack' = <<[name |-> <<>>, err |-> r.err, val |-> r.val]>>
    /\ pre' = Here
    /\ phase' = IF phase = "readint" THEN "intread" ELSE "end"
    /\ UNCHANGED <<written, rq>>

\* buf.GetRange(start, len) on a buffer a packet was written to or whose
\* cursor was moved.
GetRangeOp ==
    /\ UNCHANGED resolverVars
    /\ phase \in {"packet", "sought"}
    /\ \E start \in RangeStarts, len \in RangeLens :
          \E r \in {GetRange(Here, start, len)} :
             /\ op' = [NoOp EXCEPT !.kind = "GetRange", !.err = r.err,
                                   !.n = start]
             /\ readBack' = <<[name |-> r.val, err |-> r.err, start |-> start,
                               len |-> len]>>
    /\ pre' = Here
    /\ phase' = "end"
    /\ UNCHANGED <<Buf, pos, written, rq>>

\* buf.GetRangeAtPos() on a buffer a packet was written to or whose cursor
\* was moved.
GetRangeAtPosOp ==
    /\ UNCHANGED resolverVars
    /\ phase \in {"packet", "sought"}
    /\ \E r \in {GetRangeAtPos(Here)} :
          /\ op' = [NoOp EXCEPT !.kind = "GetRangeAtPos", !.err = r.err]
          /\ readBack' = <<[name |-> r.val, err |-> r.err, start |-> 0,
                            len |-> pos]>>
    /\ pre' = Here
    /\ phase' = "end"
    /\ UNCHANGED <<Buf, pos, written, rq>>

\* conn.Read(buf.Buf): a datagram fills the buffer; the cursor is where the
\* decoding of one of its fields starts.
LoadDatagram ==
    /\ UNCHANGED resolverVars
    /\ phase = "fresh"
    /\ \E d \in Datagrams, c \in StartCursors :
          /\ Buf' = d
          /\ pos' = Seek(Here, c).pos
          /\ op' = [NoOp EXCEPT !.kind = "Load", !.n = c]
    /\ pre' = Here
    /\ phase' = "datagram"
    /\ UNCHANGED <<written, readBack, rq>>

\* dns.DNSPacketFromBuffer(buf)
PacketReadOp ==
    /\ UNCHANGED resolverVars
    /\ \/ phase = "readpacket"
       \/ phase = "datagram" /\ pos = 0
    /\ LET r == DNSPacketFromBuffer(Here) IN
          /\ Buf' = r.b.Buf
          /\ pos' = r.b.pos
          /\ op' = [NoOp EXCEPT !.kind = "PacketRead", !.pkt = r.p, !.err = r.err,
                                !.ok = r.ok]
    /\ pre' = Here
    /\ phase' = IF phase = "readpacket" THEN "packetread" ELSE "decoded"
    /\ UNCHANGED <<written, readBack, rq>>

\* rec.Read(buf) on a zero record
RecordReadOp ==
    /\ UNCHANGED resolverVars
    /\ phase = "datagram"
    /\ LET r == RecordRead(Here, ZeroRecord) IN
          /\ Buf' = r.b.Buf
          /\ pos' = r.b.pos
          /\ op' = [NoOp EXCEPT !.kind = "RecordRead", !.rec = r.r, !.err = r.err]
    /\ pre' = Here
    /\ phase' = "decoded"
    /\ UNCHANGED <<written, readBack, rq>>

\* buf.ReadQname(name) is entered: the locals are set.
RQBegin ==
    /\ UNCHANGED resolverVars
    /\ phase = "datagram"
    /\ rq' = RQStart(Here, <<>>)
    /\ op' = [NoOp EXCEPT !.kind = "ReadQnameLoop"]
    /\ pre' = Here
    /\ phase' = "readqname"
    /\ UNCHANGED <<Buf, pos, written, readBack>>

\* One iteration of the loop of ReadQname; op.n counts the iterations.  The
\* iteration that breaks or returns ends the call.
RQLoop ==
    /\ UNCHANGED resolverVars
    /\ phase = "readqname"
    /\ rq.pc = "loop"
    /\ rq' = RQIter(Buf, rq)
    /\ pos' = rq'.cursor
    /\ op' = [op EXCEPT !.n = op.n + 1, !.err = rq'.err, !.name = rq'.str]
    /\ phase' = IF rq'.pc = "return" THEN "decoded" ELSE "readqname"
    /\ UNCHANGED <<Buf, pre, written, readBack>>

CodecNext ==
    \/ NewBuffer
    \/ SeekOp
    \/ WriteQnameOp
    \/ SeekZeroOp
    \/ ReadQnameOp
    \/ RecordWriteOp
    \/ PacketWriteOp
    \/ HeaderWriteOp
    \/ HeaderReadOp
    \/ IntWriteOp
    \/ SeekBackOp
    \/ IntReadOp
    \/ GetRangeOp
    \/ GetRangeAtPosOp
    \/ LoadDatagram
    \/ PacketReadOp
    \/ RecordReadOp
    \/ RQBegin
    \/ RQLoop

\* ---------------------------------------------------------------- the server
\* the depth of nested recursiveLookup calls the model follows
MaxDepth == 2

NsCom == <<110,115,46,99,111,109>>

\* The octets PacketWrite leaves in a fresh buffer for packet p.
Encode(p) == PacketWrite(NewBytePacketBuffer, p).b.Buf

QuestionGoogleA == NewDNSQuestion(GoogleCom, AQueryType)

\* The datagrams clients send: one question, none, two, and one that does
\* not decode (one question announced, its name a pointer to itself).
ReqOne ==
    Encode([NewDNSPacket EXCEPT !.Header = QueryHeader,
                                !.Questions = <<QuestionGoogleA>>])
ReqNone == Encode([NewDNSPacket EXCEPT !.Header = QueryHeader])
ReqTwo ==
    Encode([NewDNSPacket EXCEPT !.Header = QueryHeader,
                                !.Questions = <<QuestionGoogleA, QuestionA>>])
ReqUndecodable == Place(<<171, 247, 1, 0, 0, 1, 0, 0, 0, 0, 0, 0, 192, 12>>, 0)

Requests == {ReqOne, ReqNone, ReqTwo, ReqUndecodable}

RecGoogleA1 ==
    [ZeroRecord EXCEPT !.QType = AQueryType, !.Domain = GoogleCom, !.Class = 1,
                       !.TTL = U32(300), !.Addr = <<172, 217, 164, 100>>]
RecGoogleA2 == [RecGoogleA1 EXCEPT !.Addr = <<172, 217, 164, 101>>]
RecComNS ==
    [ZeroRecord EXCEPT !.QType = NSQueryType, !.Domain = Com, !.Class = 1,
                       !.TTL = U32(172800), !.Host = NsCom]
RecNsComA ==
    [ZeroRecord EXCEPT !.QType = AQueryType, !.Domain = NsCom, !.Class = 1,
                       !.TTL = U32(172800), !.Addr = <<192, 5, 6, 30>>]

Org == <<111,114,103>>
NsOrg == <<110,115,46,111,114,103>>
ComUpper == <<67,79,77>>
RecOrgNS == [RecComNS EXCEPT !.Domain = Org, !.Host = NsOrg]
RecNsOrgA == [RecNsComA EXCEPT !.Domain = NsOrg, !.Addr = <<199, 19, 56, 1>>]
RecNsComAAAA ==
    [ZeroRecord EXCEPT !.QType = AAAAQueryType, !.Domain = NsCom, !.Class = 1,
                       !.TTL = U32(172800),
                       !.Addr = <<32,1,5,3,168,62,0,0,0,0,0,0,0,2,0,48>>]
RecComUpperNS == [RecComNS EXCEPT !.Domain = ComUpper]

Response(rcode, answers, authorities, resources) ==
    [NewDNSPacket EXCEPT !.Header = [ReplyHeader EXCEPT !.ResCode = rcode],
                         !.Questions = <<QuestionGoogleA>>,
                         !.Answers = answers,
                         !.Authorities = authorities,
                         !.Resources = resources]

\* The packets nameservers answer with.
RespAnswer == Response(NoError, <<RecGoogleA1, RecGoogleA2>>, <<>>, <<>>)
RespAnswerAndGlue ==
    Response(NoError, <<RecGoogleA1>>, <<RecComNS>>, <<RecNsComA>>)
RespNxDomain == Response(NxDomain, <<>>, <<>>, <<>>)
RespNxDomainAndGlue == Response(NxDomain, <<>>, <<RecComNS>>, <<RecNsComA>>)
RespGlue == Response(NoError, <<>>, <<RecComNS>>, <<RecNsComA>>)
RespNoGlue == Response(NoError, <<>>, <<RecComNS>>, <<>>)
RespEmpty == Response(NoError, <<>>, <<>>, <<>>)
\* A referral with glue whose first NS record is for another zone and whose
\* additional section holds an AAAA record and the address of the other
\* zone's nameserver before the address of the nameserver of com.
RespGlueSecond ==
    Response(NoError, <<>>, <<RecOrgNS, RecComNS>>,
             <<RecNsComAAAA, RecNsOrgA, RecNsComA>>)
\* The referral with glue as a nameserver that writes names in capitals
\* sends it.
RespGlueUpper == Response(NoError, <<>>, <<RecComUpperNS>>, <<RecNsComA>>)
RespNoGlueUpper == Response(NoError, <<>>, <<RecComUpperNS>>, <<>>)
RespServFailAnswer == Response(ServFail, <<RecGoogleA1>>, <<>>, <<>>)

ResponsePackets ==
    {RespAnswer, RespAnswerAndGlue, RespNxDomain, RespNxDomainAndGlue,
     RespGlue, RespNoGlue, RespEmpty, RespServFailAnswer, RespGlueSecond,
     RespGlueUpper, RespNoGlueUpper}

\* An answer as a nameserver that compresses names sends it: the question
\* google.com A, then four A records and ten AAAA records whose owner is a
\* pointer to the name of the question (372 octets).  Written with every
\* name in full the same packet takes 512 octets.
WireHeader14 == <<171, 247, 129, 128, 0, 1, 0, 14, 0, 0, 0, 0>>
WireQuestion ==
    <<6, 103, 111, 111, 103, 108, 101, 3, 99, 111, 109, 0, 0, 1, 0, 1>>
WireA == <<192, 12, 0, 1, 0, 1, 0, 0, 1, 44, 0, 4, 172, 217, 164, 100>>
WireAAAA ==
    <<192, 12, 0, 28, 0, 1, 0, 0, 1, 44, 0, 16,
      42, 0, 20, 80, 64, 1, 8, 19, 0, 0, 0, 0, 0, 0, 32, 14>>
WireAAAA5 == WireAAAA \o WireAAAA \o WireAAAA \o WireAAAA \o WireAAAA
RespFullWire ==
    Place(WireHeader14 \o WireQuestion \o WireA \o WireA \o WireA \o WireA
          \o WireAAAA5 \o WireAAAA5, 0)

\* What conn.Read hands to lookup: an error, the encoding of a response,
\* or octets that do not decode.
NetReplies ==
    {[err |-> "i/o timeout", Buf |-> NewBytePacketBuffer.Buf]}
    \cup {[err |-> NoErr, Buf |-> Encode(p)] : p \in ResponsePackets}
    \cup {[err |-> NoErr, Buf |-> ReqUndecodable]}
    \cup {[err |-> NoErr, Buf |-> RespFullWire]}

\* The draws of rand.Intn(100000-5000) the model follows: the least and
\* the greatest.
RandDraws == {0, 94999}

\* Frame with a nameserver of com where the call starts.
FrameNotRoot(qName, qType) ==
    [qName |-> qName, qType |-> qType, ns |-> IPv4(192, 5, 6, 30),
     response |-> NewDNSPacket, pc |-> "lookup"]

\* A call of recursiveLookup at its entry.
Frame(qName, qType) ==
    [qName |-> qName, qType |-> qType, ns |-> RootNS,
     response |-> NewDNSPacket, pc |-> "lookup"]

Top == stack[Len(stack)]

\* Serve reads a datagram and handleQuery starts on it: the request is
\* decoded (a failure is printed and the nil request is then dereferenced),
\* a request with one question is resolved, any other is answered at once.
ReceiveQuery ==
    /\ serving = "waiting"
    /\ \E d \in Requests :
          LET r == DNSPacketFromBuffer([Buf |-> d, pos |-> 0]) IN
          /\ ret' = NoRet
          /\ upstream' = NoUpstream
          /\ IF r.err # NoErr
             THEN /\ serving' = "crashed"
                  /\ request' = NewDNSPacket
                  /\ stack' = <<>>
                  /\ reply' = NoReply
             ELSE /\ request' = r.p
                  /\ IF Len(r.p.Questions) = 1
                     THEN /\ serving' = "resolving"
                          /\ stack' = <<Frame(r.p.Questions[1].Name,
                                              r.p.Questions[1].QType)>>
                          /\ reply' = NoReply
                     ELSE /\ serving' = "waiting"
                          /\ stack' = <<>>
                          /\ reply' = SendReply(ReplyFor(r.p, NewDNSPacket, NoErr))
    /\ UNCHANGED codecVars

\* return pkt, err from the innermost call
ReturnFromCall(pkt, err, after) ==
    /\ stack' = SubSeq(stack, 1, Len(stack) - 1)
    /\ ret' = [set |-> TRUE, pkt |-> pkt, err |-> err, qName |-> Top.qName,
               qType |-> Top.qType, after |-> after]
    /\ serving' = IF Len(stack) = 1 THEN "resolved" ELSE "resolving"

\* One turn of the loop of recursiveLookup, up to its return, its continue
\* or its nested call.
LookupStep ==
    /\ serving = "resolving"
    /\ stack # <<>>
    /\ Top.pc = "lookup"
    /\ \E r \in RandDraws, net \in NetReplies :
          \E l \in {lookup(Top.qName, Top.qType, Top.ns, r, net)} :
          \E what \in {IF l.err # NoErr THEN "error"
                       ELSE Classify(l.pkt, Top.qName)} :
          /\ what = "descend" => Len(stack) < MaxDepth
          /\ upstream' = [tick |-> ~upstream.tick, qName |-> Top.qName,
                          qType |-> Top.qType, ns |-> Top.ns, id |-> l.id,
                          sent |-> l.sent, req |-> l.req, err |-> l.err,
                          response |-> l.pkt,
                          outcome |-> what, depth |-> Len(stack)]
          /\ CASE what = "error" ->
                    ReturnFromCall(NewDNSPacket, "looking up query name", "error")
               [] what \in {"answer", "nxdomain", "nons"} ->
                    ReturnFromCall(l.pkt, NoErr, what)
               [] what = "glue" ->
                    /\ stack' = [stack EXCEPT
                                   ![Len(stack)].ns = GetResolverNS(l.pkt, Top.qName)]
                    /\ UNCHANGED <<ret, serving>>
               [] what = "descend" ->
                    /\ stack' = Append(
                          [stack EXCEPT ![Len(stack)].response = l.pkt,
                                        ![Len(stack)].pc = "awaitSub"],
                          Frame(GetUnresolvedNS(l.pkt, Top.qName), AQueryType))
                    /\ UNCHANGED <<ret, serving>>
    /\ UNCHANGED <<request, reply>>
    /\ UNCHANGED codecVars

\* The nested recursiveLookup returned: the caller fails, returns the
\* response it holds, or goes on with an address of the answer.
SubResolved ==
    /\ serving = "resolving"
    /\ stack # <<>>
    /\ Top.pc = "awaitSub"
    /\ ret.set
    /\ IF ret.err # NoErr
       THEN ReturnFromCall(NewDNSPacket, "recursive lookup", "error")
       ELSE IF Len(ARecords(ret.pkt)) = 0
       THEN ReturnFromCall(Top.response, NoErr, "sub")
       ELSE \E k \in 0..(Len(ARecords(ret.pkt)) - 1) :
               /\ stack' = [stack EXCEPT
                              ![Len(stack)].ns = GetRandomA(ret.pkt, k),
                              ![Len(stack)].pc = "lookup"]
               /\ ret' = NoRet
               /\ UNCHANGED serving
    /\ UNCHANGED <<request, upstream, reply>>
    /\ UNCHANGED codecVars

\* recursiveLookup returned to handleQuery: the reply is built and sent.
Reply ==
    /\ serving = "resolved"
    /\ reply' = SendReply(ReplyFor(request, ret.pkt, ret.err))
    /\ serving' = "waiting"
    /\ UNCHANGED <<request, stack, ret, upstream>>
    /\ UNCHANGED codecVars

ResolverNext ==
    \/ ReceiveQuery
    \/ LookupStep
    \/ SubResolved
    \/ Reply

Init == CodecInit /\ ResolverInit

Next == CodecNext

vars == <<codecVars, resolverVars>>

Spec == Init /\ [][Next]_vars

\* ReadQname runs to its return once entered: the loop is not interrupted.
FairSpec == Spec /\ WF_vars(RQLoop)

ResolverSpec == Init /\ [][ResolverNext]_vars

\* ======================================================================
\* Claims about the codec
\* ======================================================================

\* ---- helpers of the claims: what the wire format asks for, stated
\* ---- without the code's loops
\* The length of the label of `name` that starts at index i.
LabelLenAt(name, i) ==
    LET stops == {j \in i..(Len(name) + 1) : j = Len(name) + 1 \/ name[j] = Dot}
    IN (CHOOSE j \in stops : \A k \in stops : j <= k) - i

\* Every label of `name` has 1..63 octets.
PlainName(name) ==
    /\ Len(name) > 0
    /\ \A i \in 1..Len(name) : name[i] = Dot =>
          /\ i > 1
          /\ i < Len(name)
          /\ name[i + 1] # Dot
    /\ \A i \in 1..Len(name) :
          (i = 1 \/ name[i - 1] = Dot) => LabelLenAt(name, i) <= MaxLabelLen

\* Some label of `name` has more than 63 octets.
HasLongLabel(name) ==
    \E i \in 1..Len(name) :
        /\ i = 1 \/ name[i - 1] = Dot
        /\ LabelLenAt(name, i) > MaxLabelLen

\* Octet k (from 0) of the uncompressed encoding of a plain name: the name
\* moved by one octet, each dot replaced by the length of the label after it.
EncodedOctet(name, k) ==
    IF k = 0 THEN LabelLenAt(name, 1)
    ELSE IF k = Len(name) + 1 THEN 0
    ELSE IF name[k] = Dot THEN LabelLenAt(name, k + 1)
    ELSE name[k]

EncodedLen(name) == Len(name) + 2

Offsets == 0..(BufSize - 1)

HeaderEqButCounts(h1, h2) ==
    [h1 EXCEPT !.Questions = 0, !.Answers = 0, !.AuthoritativeEntries = 0,
               !.ResourceEntries = 0]
    = [h2 EXCEPT !.Questions = 0, !.Answers = 0, !.AuthoritativeEntries = 0,
                 !.ResourceEntries = 0]

\* Two records agree in name, type, class, TTL and the payload of their type.
RecordEq(r1, r2) ==
    /\ r1.Domain = r2.Domain
    /\ r1.QType = r2.QType
    /\ r1.Class = r2.Class
    /\ r1.TTL = r2.TTL
    /\ CASE r1.QType \in {AQueryType, AAAAQueryType} -> To16(r1.Addr) = To16(r2.Addr)
         [] r1.QType \in {NSQueryType, CNAMEQueryType} -> r1.Host = r2.Host
         [] r1.QType = MXQueryType ->
              r1.Host = r2.Host /\ r1.Priority = r2.Priority
         [] r1.QType = SOAQueryType ->
              /\ r1.Host = r2.Host
              /\ r1.MailHost = r2.MailHost
              /\ <<r1.Serial, r1.Refresh, r1.Retry, r1.Expire, r1.Minimum>>
                 = <<r2.Serial, r2.Refresh, r2.Retry, r2.Expire, r2.Minimum>>
         [] OTHER -> r1.DataLen = r2.DataLen

SectionEq(s1, s2) ==
    /\ Len(s1) = Len(s2)
    /\ \A i \in 1..Len(s1) : RecordEq(s1[i], s2[i])

PacketEq(p1, p2) ==
    /\ HeaderEqButCounts(p1.Header, p2.Header)
    /\ p1.Questions = p2.Questions
    /\ SectionEq(p1.Answers, p2.Answers)
    /\ SectionEq(p1.Authorities, p2.Authorities)
    /\ SectionEq(p1.Resources, p2.Resources)

\* C1: a packet that DNSPacket.Write encoded without error into a fresh
\* buffer is decoded again, after Seek(0), by DNSPacket.Read without error
\* and as an equal packet (sections, and header but for the four counts).
C1_PacketRoundTrip ==
    (phase = "packetread" /\ written[1].err = NoErr) =>
        /\ op.err = NoErr
        /\ PacketEq(op.pkt, written[1].pkt)

\* C2: WriteQname of a name whose labels have 1..63 octets each, with room
\* left in the buffer, emits per label a length octet and the label's
\* octets, then one zero octet, moves the cursor by the octets emitted and
\* leaves the rest of the buffer alone (www.google.com in a fresh buffer:
\* 3 www 6 google 3 com 0, cursor 16); a label of more than 63 octets makes
\* it return an error.
C2_WriteQnamePlain ==
    op.kind = "WriteQname" =>
        /\ (PlainName(op.name) /\ pre.pos + EncodedLen(op.name) <= BufSize) =>
              /\ op.err = NoErr
              /\ pos = pre.pos + EncodedLen(op.name)
              /\ \A k \in 0..(EncodedLen(op.name) - 1) :
                    Buf[pre.pos + k] = EncodedOctet(op.name, k)
              /\ \A i \in Offsets :
                    (i < pre.pos \/ i >= pos) => Buf[i] = pre.Buf[i]
        /\ HasLongLabel(op.name) => op.err # NoErr
        /\ (op.name = WwwGoogleCom /\ pre.pos = 0) =>
              /\ [i \in 1..16 |-> Buf[i - 1]]
                 = <<3, 119, 119, 119, 6, 103, 111, 111, 103, 108, 101,
                     3, 99, 111, 109, 0>>
              /\ pos = 16

\* C2's case: www.google.com was written into a fresh buffer.
C2_Witness ==
    /\ op.kind = "WriteQname"
    /\ op.name = WwwGoogleCom
    /\ pre.pos = 0
    /\ op.err = NoErr
    /\ pos = 16

\* The names written so far, all without error.
WrittenNames(ns) ==
    /\ Len(written) = Len(ns)
    /\ \A i \in 1..Len(ns) : written[i].name = ns[i] /\ written[i].err = NoErr

\* C3: a name written after earlier names ends in a pointer to its longest
\* suffix already in the buffer: www.google.com twice gives C0 00 at 16, 17;
\* www.google.com then google.com gives C0 04 at 16, 17; www.google.com
\* then yahoo.com gives 5 yahoo at 16..21 and C0 0B at 22, 23.
C3_WriteQnameCompresses ==
    phase = "names" =>
        /\ WrittenNames(<<WwwGoogleCom, WwwGoogleCom>>) =>
              Buf[16] = 192 /\ Buf[17] = 0
        /\ WrittenNames(<<WwwGoogleCom, GoogleCom>>) =>
              Buf[16] = 192 /\ Buf[17] = 4
        /\ WrittenNames(<<WwwGoogleCom, YahooCom>>) =>
              /\ [i \in 1..6 |-> Buf[15 + i]] = <<5, 121, 97, 104, 111, 111>>
              /\ Buf[22] = 192
              /\ Buf[23] = 11

\* C4: names (each empty or of labels of 1..63 octets) written one after
\* another into a fresh buffer, all without error, are returned in that order by as many ReadQname calls from
\* offset 0, each on an empty DomainName.
C4_NamesRoundTrip ==
    (/\ phase = "readnames"
     /\ Len(readBack) = Len(written)
     /\ \A i \in 1..Len(written) :
           /\ written[i].err = NoErr
           /\ written[i].name = EmptyName \/ PlainName(written[i].name))
    => \A i \in 1..Len(written) :
          /\ readBack[i].err = NoErr
          /\ readBack[i].name = written[i].name

\* C5: WriteQname of the empty name writes the one octet 0 and moves the
\* cursor by 1; the octets WriteQname emits for any name hold exactly one
\* zero octet, the terminator.
C5_OneZeroOctet ==
    (op.kind = "WriteQname" /\ op.err = NoErr) =>
        /\ Cardinality({i \in pre.pos..(pos - 1) : Buf[i] = 0}) = 1
        /\ op.name = EmptyName => pos = pre.pos + 1 /\ Buf[pre.pos] = 0

\* C6: DNSRecord.Write of a record whose type is none of A, NS, CNAME, SOA,
\* MX, AAAA leaves the buffer and the cursor as they were and reports 0
\* octets written.
C6_UnknownWriteNoOp ==
    (op.kind = "RecordWrite" /\ op.rec.QType \notin KnownQueryTypes) =>
        /\ Buf = pre.Buf
        /\ pos = pre.pos
        /\ op.n = 0

\* C7: the cursor stays within 0..512, whatever was decoded or written.
C7_CursorInRange == pos >= 0 /\ pos <= BufSize

\* The name at offset p lies inside the buffer and is reached through at
\* most MAX_JUMPS pointers, `hops` of them already followed.
RECURSIVE WellFormedName(_, _, _)
WellFormedName(B, p, hops) ==
    /\ p < BufSize
    /\ \/ B[p] = 0
       \/ /\ B[p] >= PointerTag
          /\ p + 1 < BufSize
          /\ hops + 1 <= MAX_JUMPS
          /\ WellFormedName(B, (B[p] - PointerTag) * 256 + B[p + 1], hops + 1)
       \/ /\ B[p] > 0
          /\ B[p] < PointerTag
          /\ p + B[p] < BufSize
          /\ WellFormedName(B, p + 1 + B[p], hops)

C8_Bounded ==
    /\ rq.jumps <= MAX_JUMPS + 1
    /\ op.kind = "ReadQname" => op.ok
    /\ op.kind = "ReadQnameLoop" => op.n <= RQMaxIterations
    /\ (op.kind = "ReadQnameLoop" /\ phase = "decoded") =>
          /\ rq.jumps > MAX_JUMPS => op.err = MaxJumpsErr
          /\ op.err = MaxJumpsErr => rq.jumps = MAX_JUMPS + 1
          /\ WellFormedName(Buf, pre.pos, 0) => op.err = NoErr

\* C8: ReadQname, once entered, returns, whatever the buffer holds and
\* wherever the cursor is; it follows at most 6 pointers, returns the
\* max-jumps error once more than MAX_JUMPS were followed, and returns a
\* name when the name lies inside the buffer behind at most MAX_JUMPS
\* pointers.
C8_ReadQnameTerminates ==
    /\ []C8_Bounded
    /\ (phase = "readqname") ~> (phase = "decoded")

\* C8's case: a pointer cycle ended the call with the max-jumps error.
C8_Witness ==
    /\ op.kind = "ReadQnameLoop"
    /\ phase = "decoded"
    /\ Buf = DgramPointerCycle
    /\ op.err = MaxJumpsErr
    /\ rq.jumps = MAX_JUMPS + 1

\* ======================================================================
\* Claims about the resolver
\* ======================================================================

\* C9: a call of recursiveLookup ends after a bounded number of upstream
\* queries, whatever the nameservers answer.  The code keeps no count of its
\* queries, so a bound can only come from progress: an upstream query that
\* does not end the call must leave it somewhere new (another nameserver,
\* another question or another nesting).  A query after which the call
\* stands exactly where it stood is repeated for ever by a nameserver that
\* repeats its response.
C9_EveryQueryAdvances ==
    [][(upstream'.tick # upstream.tick /\ serving' = "resolving")
          => stack' # stack]_vars

\* A response recursiveLookup has to return at once: answers with rcode
\* NoError, or rcode NxDomain.
Terminal(p) ==
    \/ Len(p.Answers) # 0 /\ p.Header.ResCode = NoError
    \/ p.Header.ResCode = NxDomain

\* An upstream exchange was made in this step and a response was decoded.
Exchanged ==
    /\ serving = "resolving"
    /\ upstream'.tick # upstream.tick
    /\ upstream'.err = NoErr

\* A call of recursiveLookup returned in this step, without error.
Returned == Len(stack') < Len(stack) /\ ret'.set /\ ret'.err = NoErr

\* C10: a decoded response with answers and rcode NoError, or with rcode
\* NxDomain, ends the call of recursiveLookup that received it: the call
\* returns that response, unchanged and without error, and so sends no
\* further query; a response of neither kind is returned only when it
\* names no glue address and either names no nameserver or the resolution
\* of the nameserver's name gave no A record.
C10_TerminalResponses ==
    [][/\ (Exchanged /\ Terminal(upstream'.response)) =>
             /\ Returned
             /\ Len(stack') = Len(stack) - 1
             /\ ret'.pkt = upstream'.response
             /\ ret'.qName = upstream'.qName
       /\ (Returned /\ ~Terminal(ret'.pkt)) =>
             /\ GetResolverNS(ret'.pkt, ret'.qName) = <<>>
             /\ \/ GetUnresolvedNS(ret'.pkt, ret'.qName) = <<>>
                \/ /\ Top.pc = "awaitSub"
                   /\ ret.set
                   /\ ret.err = NoErr
                   /\ \A i \in 1..Len(ret.pkt.Answers) :
                         ret.pkt.Answers[i].QType # AQueryType
                   /\ ret'.pkt = Top.response
      ]_vars

\* C10's case: a response with an answer was returned as it came, though it
\* also named a nameserver with a glue address.
C10_Witness ==
    /\ ret.set
    /\ ret.err = NoErr
    /\ upstream.err = NoErr
    /\ upstream.sent
    /\ ret.pkt = upstream.response
    /\ Terminal(ret.pkt)
    /\ GetResolverNS(ret.pkt, ret.qName) # <<>>

\* ---- helpers of the claims about referrals
\* A name with its capital letters made small.
Lower(name) ==
    [i \in 1..Len(name) |->
        IF name[i] >= 65 /\ name[i] <= 90 THEN name[i] + 32 ELSE name[i]]

\* qname ends with owner, letter case apart.
EndsWith(qname, owner) == HasSuffix(Lower(qname), Lower(owner))

\* The NS records of the authority section that are eligible for qname.
EligibleNS(p, qname) ==
    {i \in 1..Len(p.Authorities) :
        /\ p.Authorities[i].QType = NSQueryType
        /\ EndsWith(qname, p.Authorities[i].Domain)}

\* The pairs (eligible NS record, A record of the additional section owned
\* by the NS record's target).
GlueHits(p, qname) ==
    {h \in EligibleNS(p, qname) \X (1..Len(p.Resources)) :
        /\ p.Resources[h[2]].QType = AQueryType
        /\ p.Resources[h[2]].Domain = p.Authorities[h[1]].Host}

\* The first pair, authorities scanned in order and the additional section
\* in order for each.
FirstGlue(p, qname) ==
    CHOOSE h \in GlueHits(p, qname) : \A g \in GlueHits(p, qname) :
        h[1] < g[1] \/ (h[1] = g[1] /\ h[2] <= g[2])

\* The innermost call before and after the step.
TopBefore == stack[Len(stack)]
TopAfter == stack'[Len(stack')]

\* C11: a response that is neither an answer nor NXDOMAIN and holds glue for
\* an eligible NS record sends the same call on, with the same question, to
\* the address of the first such glue record; and a call moves on to a glue
\* address only when that address is the one of such a record.
C11_GluePath ==
    [][Exchanged /\ ~Terminal(upstream'.response) =>
          /\ GlueHits(upstream'.response, upstream'.qName) # {} =>
                /\ Len(stack') = Len(stack)
                /\ TopAfter.pc = "lookup"
                /\ TopAfter.qName = TopBefore.qName
                /\ TopAfter.qType = TopBefore.qType
                /\ TopAfter.ns =
                      upstream'.response.Resources[
                          FirstGlue(upstream'.response, upstream'.qName)[2]].Addr
          /\ upstream'.outcome = "glue" =>
                GlueHits(upstream'.response, upstream'.qName) # {}]_vars

\* The eligible NS records whose target is a name.
NamedNS(p, qname) ==
    {i \in EligibleNS(p, qname) : p.Authorities[i].Host # <<>>}

\* The nested call returned to a caller that goes on or returns.
SubReturned ==
    /\ stack # <<>>
    /\ TopBefore.pc = "awaitSub"
    /\ ret.set /\ ret.err = NoErr
    /\ stack' # stack

\* C12: a response that is neither an answer nor NXDOMAIN and holds no glue
\* makes the call resolve the target of an eligible NS record, with type A
\* and from the root server, and wait for it; without such a record the call
\* returns the response without error.  When the nested call returns a packet
\* with A records among its answers the caller goes on with the address of
\* one of them; when it returns none the caller returns the response it
\* holds, without error.
C12_NoGluePath ==
    [][/\ (/\ Exchanged /\ ~Terminal(upstream'.response)
           /\ GlueHits(upstream'.response, upstream'.qName) = {}) =>
             IF NamedNS(upstream'.response, upstream'.qName) # {}
             THEN /\ Len(stack') = Len(stack) + 1
                  /\ stack'[Len(stack)].pc = "awaitSub"
                  /\ stack'[Len(stack)].response = upstream'.response
                  /\ \E i \in NamedNS(upstream'.response, upstream'.qName) :
                        TopAfter = Frame(upstream'.response.Authorities[i].Host,
                                         AQueryType)
                  /\ TopAfter.ns = RootNS
             ELSE /\ Returned
                  /\ ret'.pkt = upstream'.response
       /\ SubReturned =>
             IF \E i \in 1..Len(ret.pkt.Answers) :
                   ret.pkt.Answers[i].QType = AQueryType
             THEN /\ Len(stack') = Len(stack)
                  /\ TopAfter.pc = "lookup"
                  /\ TopAfter.qName = TopBefore.qName
                  /\ TopAfter.qType = TopBefore.qType
                  /\ \E i \in 1..Len(ret.pkt.Answers) :
                        /\ ret.pkt.Answers[i].QType = AQueryType
                        /\ TopAfter.ns = ret.pkt.Answers[i].Addr
             ELSE /\ Returned
                  /\ ret'.pkt = TopBefore.response]_vars

\* ---- helpers of the claims about replies
\* handleQuery sends its reply in this step.
Replies == serving = "resolved" /\ serving' = "waiting" /\ reply'.sent

\* The packet the client decodes from the datagram sent in this step.
SentPacket == DNSPacketFromBuffer([Buf |-> Place(reply'.data, 0), pos |-> 0])

\* C13: once an upstream exchange of a resolution has failed, in the outer
\* call or in a nested one, no upstream query follows for that request, and
\* the reply sent has rcode ServFail, the ID of the request and empty answer,
\* authority and additional sections.
C13_FailureIsServFail ==
    [][(upstream.err # NoErr /\ serving \in {"resolving", "resolved"}) =>
          /\ upstream' = upstream
          /\ Replies =>
                \E d \in {SentPacket} :
                   /\ d.err = NoErr
                   /\ d.p.Header.ResCode = ServFail
                   /\ d.p.Header.ID = request.Header.ID
                   /\ d.p.Answers = <<>>
                   /\ d.p.Authorities = <<>>
                   /\ d.p.Resources = <<>>
                   /\ d.p.Header.Answers = 0
                   /\ d.p.Header.AuthoritativeEntries = 0
                   /\ d.p.Header.ResourceEntries = 0]_vars

\* A nested resolution failed and the client was sent ServFail.
C13_Witness ==
    /\ serving = "waiting"
    /\ reply.sent
    /\ upstream.err # NoErr
    /\ upstream.depth = 2
    /\ reply.pkt.Header.ResCode = ServFail

\* C14: a request that decodes with no question or with more than one is
\* answered at once, without any upstream query: the reply has rcode FormErr
\* and the ID of the request, its four sections are empty and its four
\* counts are 0.
C14_FormErrUnlessOneQuestion ==
    [][(/\ serving = "waiting"
        /\ serving' # "crashed"
        /\ Len(request'.Questions) # 1) =>
          /\ serving' = "waiting"
          /\ stack' = <<>>
          /\ upstream' = NoUpstream
          /\ reply'.sent
          /\ \E d \in {SentPacket} :
                /\ d.err = NoErr
                /\ d.p.Header.ResCode = FormErr
                /\ d.p.Header.ID = request'.Header.ID
                /\ d.p.Questions = <<>>
                /\ d.p.Answers = <<>>
                /\ d.p.Authorities = <<>>
                /\ d.p.Resources = <<>>
                /\ d.p.Header.Questions = 0
                /\ d.p.Header.Answers = 0
                /\ d.p.Header.AuthoritativeEntries = 0
                /\ d.p.Header.ResourceEntries = 0]_vars

\* A request with two questions was answered with FormErr.
C14_Witness ==
    /\ serving = "waiting"
    /\ reply.sent
    /\ Len(request.Questions) = 2
    /\ reply.pkt.Header.ResCode = FormErr
    /\ upstream = NoUpstream

\* C15: Serve handles one datagram at a time and sends one reply for each
\* datagram it reads, decodable or not, before it reads the next: a datagram
\* is either answered at once or resolved first and answered then, nothing
\* is sent while it is resolved, and no datagram stops the listener.
C15_OneReplyPerDatagram ==
    [][/\ serving' # "crashed"
       /\ serving = "waiting" =>
             \/ serving' = "waiting" /\ reply'.sent
             \/ serving' = "resolving" /\ ~reply'.sent
       /\ serving = "resolving" =>
             serving' \in {"resolving", "resolved"} /\ reply' = reply
       /\ serving = "resolved" => serving' = "waiting" /\ reply'.sent]_vars

\* C16: the reply to a request with one question whose resolution returned
\* a response without error is the whole encoding of a packet with the ID of
\* the request, QR and RA set, the question of the request, the rcode of the
\* response and its three record sections in their order; decoded, its
\* header counts are the lengths of its sections.
C16_ReplyOnSuccess ==
    [][(Replies /\ Len(request.Questions) = 1 /\ ret.err = NoErr) =>
          \E d \in {SentPacket} :
             /\ reply'.werr = NoErr
             /\ reply'.derr = NoErr
             /\ d.err = NoErr
             /\ d.b.pos = Len(reply'.data)
             /\ d.p.Header.ID = request.Header.ID
             /\ d.p.Header.Response
             /\ d.p.Header.RecursionAvailable
             /\ d.p.Header.ResCode = ret.pkt.Header.ResCode
             /\ d.p.Questions = request.Questions
             /\ d.p.Answers = ret.pkt.Answers
             /\ d.p.Authorities = ret.pkt.Authorities
             /\ d.p.Resources = ret.pkt.Resources
             /\ d.p.Header.Questions = 1
             /\ d.p.Header.Answers = Len(ret.pkt.Answers)
             /\ d.p.Header.AuthoritativeEntries = Len(ret.pkt.Authorities)
             /\ d.p.Header.ResourceEntries = Len(ret.pkt.Resources)]_vars

\* ---- helpers of the claims about the packet codec
\* The 16-bit big-endian value at offsets at, at+1 of the buffer.
Wire16(at) == Buf[at] * 256 + Buf[at + 1]

\* C17: after DNSPacket.Write returned without error on a fresh buffer, the
\* counts at octets 4..11 are the lengths of the four sections of the packet
\* as it was passed, whatever counts its header held, and the counts of the
\* packet's header have been overwritten with those lengths.
C17_HeaderCountBinding ==
    (phase = "packet" /\ op.kind = "PacketWrite" /\ op.err = NoErr) =>
        /\ Wire16(4) = Len(written[1].pkt.Questions)
        /\ Wire16(6) = Len(written[1].pkt.Answers)
        /\ Wire16(8) = Len(written[1].pkt.Authorities)
        /\ Wire16(10) = Len(written[1].pkt.Resources)
        /\ op.pkt.Header.Questions = Len(written[1].pkt.Questions)
        /\ op.pkt.Header.Answers = Len(written[1].pkt.Answers)
        /\ op.pkt.Header.AuthoritativeEntries = Len(written[1].pkt.Authorities)
        /\ op.pkt.Header.ResourceEntries = Len(written[1].pkt.Resources)

\* A packet whose header held other counts than its sections was written.
C17_Witness ==
    /\ phase = "packet" /\ op.kind = "PacketWrite" /\ op.err = NoErr
    /\ written[1].pkt.Header.Answers # Len(written[1].pkt.Answers)
    /\ Wire16(6) = Len(written[1].pkt.Answers)
    /\ Len(written[1].pkt.Answers) > 0

\* The items the wire holds from the cursor of b on: the questions, then the
\* records, each read where the one before it ended, up to the first that
\* cannot be read.  w = [b, failed, qs, ends, rs]: ends[i] is the cursor
\* after the i-th question.
WireItemsStart(b) == [b |-> b, failed |-> FALSE, qs |-> <<>>, ends |-> <<>>, rs |-> <<>>]

WireQuestion1(w, q) ==
    IF q.err # NoErr THEN [w EXCEPT !.failed = TRUE]
    ELSE [w EXCEPT !.b = q.b, !.qs = Append(@, q.q), !.ends = Append(@, q.b.pos)]

WireRecord1(w, r) ==
    IF r.err # NoErr THEN [w EXCEPT !.failed = TRUE]
    ELSE [w EXCEPT !.b = r.b, !.rs = Append(@, r.r)]

\* The items lo..hi of the wire, of which the first nq are questions; the
\* range is halved rather than walked.
RECURSIVE WireItems(_, _, _, _)
WireItems(w, lo, hi, nq) ==
    IF w.failed \/ lo > hi THEN w
    ELSE IF lo = hi
    THEN IF lo <= nq
         THEN WireQuestion1(w, QuestionRead(w.b, NewDNSQuestion(<<>>, UnknownQueryType)))
         ELSE WireRecord1(w, RecordRead(w.b, ZeroRecord))
    ELSE WireItems(WireItems(w, lo, (lo + hi) \div 2, nq),
                   (lo + hi) \div 2 + 1, hi, nq)

\* What the wire of the buffer `pre` holds after its header h.
WireOf(h) ==
    WireItems(WireItemsStart(h.b), 1,
              h.h.Questions + h.h.Answers + h.h.AuthoritativeEntries
                + h.h.ResourceEntries,
              h.h.Questions)

\* The packet p that Read returned without error is the header h and the
\* items w of the wire, cut into sections by the counts of the header.
DecodedAs(p, h, w) ==
    /\ p.Header = h.h
    /\ Len(p.Questions) = h.h.Questions
    /\ Len(p.Answers) = h.h.Answers
    /\ Len(p.Authorities) = h.h.AuthoritativeEntries
    /\ Len(p.Resources) = h.h.ResourceEntries
    /\ p.Questions = w.qs
    /\ p.Answers \o p.Authorities \o p.Resources = w.rs
    /\ pos = w.b.pos
    /\ \A i \in 1..Len(p.Questions) :
          /\ p.Questions[i].QType = Wire16(w.ends[i] - 4)
          /\ p.Questions[i].Class = Wire16(w.ends[i] - 2)

\* C18: DNSPacket.Read that succeeds has read the header and then as many
\* questions, answers, authorities and additionals as the header counts say,
\* in that order and each from where the one before ended, every question
\* with the type and class of the wire; when the header or any item cannot
\* be read DNSPacketFromBuffer returns an error and no packet.
C18_DecodeStructure ==
    (op.kind = "PacketRead" /\ pre.pos = 0) =>
        \E h \in {HeaderRead(pre, NewDNSHeader)} :
           IF h.err # NoErr THEN op.err # NoErr /\ ~op.ok
           ELSE \E w \in {WireOf(h)} :
                   IF w.failed THEN op.err # NoErr /\ ~op.ok
                   ELSE /\ op.err = NoErr /\ op.ok
                        /\ DecodedAs(op.pkt, h, w)

\* A packet with a question and two different answers was decoded.
C18_Witness ==
    /\ op.kind = "PacketRead" /\ pre.pos = 0 /\ op.err = NoErr
    /\ Len(op.pkt.Questions) = 1
    /\ Len(op.pkt.Answers) = 2
    /\ op.pkt.Answers[1] # op.pkt.Answers[2]
    /\ Len(op.pkt.Authorities) + Len(op.pkt.Resources) > 0

\* ---- helpers of the claims about the header
\* 1 for a flag that is set, 0 for one that is not.
FlagBit(f) == IF f THEN 1 ELSE 0

\* The two flag octets of the wire format for header h.
LayoutA(h) ==
    FlagBit(h.RecursionDesired) + 2 * FlagBit(h.TruncatedMessage)
      + 4 * FlagBit(h.AuthoritativeAnswer) + 8 * h.Opcode
      + 128 * FlagBit(h.Response)
LayoutB(h) ==
    h.ResCode + 16 * FlagBit(h.CheckingDisabled) + 32 * FlagBit(h.AuthedData)
      + 64 * FlagBit(h.Z) + 128 * FlagBit(h.RecursionAvailable)

\* The 12 octets of buffer B from offset at are the wire format of header h.
HeaderOnWire(B, at, h) ==
    /\ B[at] * 256 + B[at + 1] = h.ID
    /\ B[at + 2] = LayoutA(h)
    /\ B[at + 3] = LayoutB(h)
    /\ B[at + 4] * 256 + B[at + 5] = h.Questions
    /\ B[at + 6] * 256 + B[at + 7] = h.Answers
    /\ B[at + 8] * 256 + B[at + 9] = h.AuthoritativeEntries
    /\ B[at + 10] * 256 + B[at + 11] = h.ResourceEntries

\* C19: DNSHeader.Write on a fresh buffer emits the 12 octets of the wire
\* format (id, flag octet A = RD, TC, AA, opcode in bits 3..6, QR, flag octet
\* B = rcode in bits 0..3, CD, AD, Z, RA, four counts, 16-bit values
\* big-endian); DNSHeader.Read after it returns the header that was written;
\* and DNSHeader.Read of 12 octets of a datagram returns the header those
\* octets are the wire format of, a result code of 6..15 read as NoError.
C19_HeaderLayout ==
    /\ (op.kind = "HeaderWrite" /\ pre.pos = 0) =>
           /\ op.err = NoErr
           /\ pos = 12
           /\ HeaderOnWire(Buf, 0, written[1].pkt.Header)
           /\ \A i \in 12..(BufSize - 1) : Buf[i] = 0
    /\ phase = "headerread" =>
           /\ op.err = NoErr
           /\ pos = 12
           /\ op.pkt.Header = written[1].pkt.Header
    /\ (op.kind = "HeaderRead" /\ pre.pos + 12 <= BufSize) =>
           /\ op.err = NoErr
           /\ pos = pre.pos + 12
           /\ op.pkt.Header.Opcode \in 0..15
           /\ op.pkt.Header.ResCode \in NoError..Refused
           /\ IF pre.Buf[pre.pos + 3] % 16 <= Refused
              THEN HeaderOnWire(pre.Buf, pre.pos, op.pkt.Header)
              ELSE /\ op.pkt.Header.ResCode = NoError
                   /\ HeaderOnWire(pre.Buf, pre.pos,
                         [op.pkt.Header EXCEPT
                             !.ResCode = pre.Buf[pre.pos + 3] % 16])

\* A header with all flags, opcode 15 and rcode 5 was written and read back;
\* a header with an rcode of 10 on the wire was read.
C19_Witness ==
    \/ /\ phase = "headerread"
       /\ op.pkt.Header = HeaderOf(65535, 255, 15, Refused, 65535)
    \/ /\ op.kind = "HeaderRead" /\ phase = "decoded" /\ pre.pos = 0
       /\ pre.Buf[3] = 250

\* C20: no error of the codec is swallowed: DNSHeader.Write, and
\* DNSPacket.Write which starts with it, started at a cursor from which the
\* 12 octets of the header do not fit in the buffer return an error.
C20_NoSwallowedError ==
    (op.kind \in {"HeaderWrite", "PacketWrite"} /\ pre.pos + 12 > BufSize)
        => op.err # NoErr

\* C21: the NS records recursiveLookup takes into account for a response are
\* the NS records of the authority section whose owner ends qname, letter
\* case apart: getNS returns their (owner, target) pairs in section order,
\* and a response that is neither an answer nor NXDOMAIN is returned for want
\* of a nameserver exactly when none of them has glue or a target name.
C21_CaseInsensitiveSuffix ==
    (upstream.sent /\ upstream.err = NoErr) =>
        /\ \A i \in 1..Len(upstream.response.Authorities) :
              upstream.response.Authorities[i].QType = NSQueryType =>
                 ((\E t \in 1..Len(getNS(upstream.response, upstream.qName)) :
                      getNS(upstream.response, upstream.qName)[t] =
                         <<upstream.response.Authorities[i].Domain,
                           upstream.response.Authorities[i].Host>>)
                  <=> EndsWith(upstream.qName,
                               upstream.response.Authorities[i].Domain))
        /\ upstream.outcome \in {"glue", "descend", "nons"} =>
              (upstream.outcome = "nons" <=>
                  /\ GlueHits(upstream.response, upstream.qName) = {}
                  /\ NamedNS(upstream.response, upstream.qName) = {})

\* ---- helpers of the claims about the integers of the buffer
\* The octets of value [hi, lo] written with the given width, the most
\* significant first.
BigEndian(value, width) ==
    CASE width = 1 -> <<value.lo % 256>>
      [] width = 2 -> <<value.lo \div 256, value.lo % 256>>
      [] width = 4 -> <<value.hi \div 256, value.hi % 256,
                        value.lo \div 256, value.lo % 256>>

\* The integer written last, and the integer read last.
IntWritten == written[1]
IntReadBack == readBack[1]

\* C22: Write16 and Write32 with room for the value leave its octets at the
\* cursor, the most significant first, touch no other octet and advance the
\* cursor by 2 and 4; Read16 and Read32 started where the value was written
\* return it and advance the cursor by 2 and 4.
C22_BigEndianIntegers ==
    /\ (/\ op.kind = "IntWrite" /\ op.n \in {2, 4}
        /\ pre.pos + op.n <= BufSize) =>
           /\ op.err = NoErr
           /\ pos = pre.pos + op.n
           /\ \A i \in 0..(BufSize - 1) :
                 Buf[i] = IF i >= pre.pos /\ i < pre.pos + op.n
                          THEN BigEndian(IntWritten.val, op.n)[i - pre.pos + 1]
                          ELSE pre.Buf[i]
    /\ (/\ phase = "intread" /\ op.n \in {2, 4}
        /\ IntWritten.err = NoErr) =>
           /\ op.err = NoErr
           /\ IntReadBack.val = IntWritten.val
           /\ pre.pos = IntWritten.at
           /\ pos = IntWritten.at + op.n
           /\ Buf = pre.Buf

\* Write32(65535) on a fresh buffer was read back; a 16-bit value with two
\* different octets was read back from the end of the buffer.
C22_Witness ==
    /\ phase = "intread"
    /\ \/ /\ op.n = 4 /\ IntWritten.at = 0 /\ IntWritten.val = U32(65535)
          /\ Buf[0] = 0 /\ Buf[1] = 0 /\ Buf[2] = 255 /\ Buf[3] = 255
          /\ pos = 4
       \/ /\ op.n = 2 /\ IntWritten.at = 510 /\ IntWritten.val = U32(4660)
          /\ IntReadBack.val = U32(4660)

\* ---- helpers of the claims about the names read
\* The call of ReadQname on a datagram returned, without error.
NameDecoded ==
    op.kind = "ReadQnameLoop" /\ phase = "decoded" /\ op.err = NoErr

\* C23: a name ReadQname returns without error is the root name or has
\* labels of 1..63 octets each, its encoding takes at most 255 octets, and
\* the octet the call started on is not a length of 64..191.
C23_NameLimits ==
    NameDecoded =>
        /\ op.name = <<>> \/ PlainName(op.name)
        /\ EncodedLen(op.name) <= 255
        /\ pre.Buf[pre.pos] \notin 64..191

\* No offset: the encoding at hand does not end inside the buffer.
NoOffset == BufSize + 1

\* The offset after the encoding that starts at p in B, read in place: after
\* the terminator that follows the labels (of 1..63 octets), or after the two
\* octets of the first pointer.  Where pointers lead is not looked at.
RECURSIVE InPlaceEnd(_, _)
InPlaceEnd(B, p) ==
    IF p >= BufSize THEN NoOffset
    ELSE IF B[p] = 0 THEN p + 1
    ELSE IF B[p] >= PointerTag
         THEN (IF p + 1 < BufSize THEN p + 2 ELSE NoOffset)
    ELSE IF B[p] > MaxLabelLen THEN NoOffset
    ELSE InPlaceEnd(B, p + 1 + B[p])

\* A call of ReadQname returned without error.
NameRead ==
    \/ NameDecoded
    \/ op.kind = "ReadQname" /\ op.err = NoErr

\* C24: after ReadQname returned a name whose encoding at the cursor is made
\* of labels of 1..63 octets, the cursor is after the terminator of that
\* encoding, or after its first pointer when it has one; reading a name,
\* with or without error, changes no octet of the buffer.
C24_CursorAfterName ==
    /\ (NameRead /\ InPlaceEnd(pre.Buf, pre.pos) # NoOffset) =>
           pos = InPlaceEnd(pre.Buf, pre.pos)
    /\ op.kind \in {"ReadQname", "ReadQnameLoop"} => Buf = pre.Buf

\* A name was read through a pointer that follows a label, and the cursor
\* is after the pointer.
C24_Witness ==
    /\ NameDecoded
    /\ rq.jumped
    /\ op.name # <<>>
    /\ pre.Buf[pre.pos] \in 1..MaxLabelLen
    /\ pos = pre.pos + pre.Buf[pre.pos] + 3

\* C25: with the cursor in 0..512, a read or a write of 1, 2 or 4 octets
\* succeeds exactly when cursor + width <= 512 and then advances the cursor
\* by the width; otherwise it returns an error and the cursor stays within
\* 0..512; the buffer keeps its 512 octets, and a read changes none.
C25_BoundedSequentialAccess ==
    (op.kind \in {"IntWrite", "IntRead"} /\ pre.pos \in 0..BufSize) =>
        /\ IF pre.pos + op.n <= BufSize
           THEN op.err = NoErr /\ pos = pre.pos + op.n
           ELSE op.err # NoErr /\ pos \in pre.pos..BufSize
        /\ DOMAIN Buf = 0..(BufSize - 1)
        /\ op.kind = "IntRead" => Buf = pre.Buf
        /\ \A i \in 0..(BufSize - 1) :
              (i < pre.pos \/ i >= pre.pos + op.n) => Buf[i] = pre.Buf[i]

\* A write of four octets was refused two octets before the end, a read of
\* two octets succeeded on the last two octets.
C25_Witness ==
    \/ /\ op.kind = "IntWrite" /\ op.n = 4 /\ pre.pos = 510
       /\ op.err # NoErr
    \/ /\ op.kind = "IntRead" /\ op.n = 2 /\ pre.pos = 510
       /\ op.err = NoErr /\ pos = BufSize

\* The range asked for last, and what was returned for it.
RangeAsked == readBack[1]

\* C26: GetRange(start, len) with 0 <= start and start + len <= 512 returns
\* the len octets at start..start+len-1 and any other range is refused;
\* GetRangeAtPos returns the first pos octets for every cursor 0..512; neither
\* moves the cursor nor changes the buffer.
C26_BoundedRandomAccess ==
    /\ op.kind = "GetRange" =>
           /\ IF RangeAsked.start + RangeAsked.len <= BufSize
              THEN /\ op.err = NoErr
                   /\ RangeAsked.name =
                         [i \in 1..RangeAsked.len |->
                             Buf[RangeAsked.start + i - 1]]
              ELSE op.err # NoErr
           /\ pos = pre.pos /\ Buf = pre.Buf
    /\ (op.kind = "GetRangeAtPos" /\ pre.pos \in 0..BufSize) =>
           /\ op.err = NoErr
           /\ RangeAsked.name = [i \in 1..pre.pos |-> Buf[i - 1]]
           /\ pos = pre.pos /\ Buf = pre.Buf

\* ---- helpers of the claims about the records
\* DNSRecord.Write returned without error for a record of a known type.
RecordEmitted ==
    op.kind = "RecordWrite" /\ op.err = NoErr /\ op.rec.QType \in KnownQueryTypes

\* Where the RDLENGTH field of the record written last lies: after the
\* owner name, the type, the class and the TTL.
RdLengthAt == pre.pos + EncodedLen(op.rec.Domain) + 8

\* The octets the payload of record r takes when its names are written in
\* full.
PayloadLen(r) ==
    CASE r.QType = AQueryType -> 4
      [] r.QType = AAAAQueryType -> 16
      [] r.QType \in {NSQueryType, CNAMEQueryType} -> EncodedLen(r.Host)
      [] r.QType = MXQueryType -> 2 + EncodedLen(r.Host)
      [] r.QType = SOAQueryType ->
           EncodedLen(r.Host) + EncodedLen(r.MailHost) + 20

\* C27: after DNSRecord.Write succeeded for an A, NS, CNAME, SOA, MX or AAAA
\* record, the RDLENGTH field of the record holds the number of octets
\* written after it, which is the length of the payload of the type (4 for
\* A, 16 for AAAA); the octets around the field are those of the prefix and
\* of the payload, the cursor is after the payload, and no octet outside the
\* record changed.
C27_RdLengthOnWrite ==
    RecordEmitted =>
        /\ Wire16(RdLengthAt) = pos - (RdLengthAt + 2)
        /\ Wire16(RdLengthAt) = PayloadLen(op.rec)
        /\ pos = pre.pos + op.n
        /\ Wire16(RdLengthAt - 8) = op.rec.QType
        /\ Wire16(RdLengthAt - 6) = op.rec.Class
        /\ Wire16(RdLengthAt - 4) = op.rec.TTL.hi
        /\ Wire16(RdLengthAt - 2) = op.rec.TTL.lo
        /\ op.rec.QType \in {NSQueryType, CNAMEQueryType, SOAQueryType} =>
              Buf[RdLengthAt + 2] = LabelLenAt(op.rec.Host, 1)
        /\ op.rec.QType = MXQueryType =>
              /\ Wire16(RdLengthAt + 2) = op.rec.Priority
              /\ Buf[RdLengthAt + 4] = LabelLenAt(op.rec.Host, 1)
        /\ op.rec.QType = AQueryType =>
              \A i \in 1..4 : Buf[RdLengthAt + 1 + i] = op.rec.Addr[i]
        /\ \A i \in 0..(BufSize - 1) :
              (i < pre.pos \/ i >= pos) => Buf[i] = pre.Buf[i]

\* An SOA record was written after another record.
C27_Witness ==
    /\ RecordEmitted
    /\ op.rec = RecSOA
    /\ pre.pos > 0
    /\ Wire16(RdLengthAt) = 47

\* DNSRecord.Read returned without error for a record whose owner name is
\* encoded at the cursor it started from.
RecordDecoded ==
    /\ op.kind = "RecordRead" /\ op.err = NoErr
    /\ InPlaceEnd(pre.Buf, pre.pos) # NoOffset

\* Where the RDLENGTH field of the record read last lies.
RdLengthRead == InPlaceEnd(pre.Buf, pre.pos) + 8

\* C28: after DNSRecord.Read succeeded the cursor is at the offset of the
\* payload plus the RDLENGTH of the wire, whatever the type of the record
\* and whatever its parser consumed.
C28_RecordBoundaryOnRead ==
    RecordDecoded =>
        pos = RdLengthRead + 2
                + pre.Buf[RdLengthRead] * 256 + pre.Buf[RdLengthRead + 1]

\* ---- helpers of the claims about the queries sent upstream
\* A query was sent to a nameserver in this step.
QuerySent ==
    serving = "resolving" /\ upstream'.tick # upstream.tick /\ upstream'.sent

\* The datagram sent, decoded.
QueryPacket == DNSPacketFromBuffer([Buf |-> Place(upstream'.req, 0), pos |-> 0])

\* Address a is the address of an A record of section sec.
AddressOfA(sec, a) ==
    \E k \in 1..Len(sec) : sec[k].QType = AQueryType /\ sec[k].Addr = a

C30_ResponseMatchesQuery ==
    (upstream.sent /\ upstream.err = NoErr) =>
        /\ upstream.response.Header.ID = upstream.id
        /\ upstream.response.Questions =
              <<[Name |-> upstream.qName, QType |-> upstream.qType,
                 Class |-> 1]>>

====
